---------------------------- MODULE Spec2Model ----------------------------
(***************************************************************************)
(* Session-and-stream lifecycle of membrane-api (src/src/server.ts,        *)
(* src/src/sessions.ts, providers in src/unnamed/part_001).                *)
(*                                                                         *)
(* The server runs on one JavaScript event loop: a handler runs without    *)
(* interruption up to its `await membrane.stream(...)`, and again from the *)
(* moment that promise settles to the end of the handler.  Each of these   *)
(* synchronous segments is one action.  The order of what happens inside a *)
(* segment is kept in the per-round event sequence and in the fields       *)
(* `registered` (of stream_start) and `invokedAt`.                         *)
(***************************************************************************)
EXTENDS Integers, Sequences, FiniteSets, TLC

VARIABLES
    now,            \* Date.now()
    sessions,       \* sessions.ts:38   Map id -> reference into sessionHeap
    sessionHeap,    \* the SessionState objects still referenced
    sessionSeq,     \* number of session ids generated so far
    activeStreams,  \* server.ts:904    Map streamId -> AbortController
    streamSeq,      \* number of stream ids generated so far
    providerHealth, \* part_001:60      Map provider -> healthy
    rounds,         \* the streaming handlers in flight, by stream id
    lastResponse,   \* the HTTP response completed last: the reply of a
                    \* plain request, or a finished round and its SSE events
    abortSuccesses, \* per stream id, the number of aborts answered 200
    lastCall,       \* the last direct call of a sessions.ts export: its
                    \* arguments and what it returned
    config          \* server.ts:2017  Config: the API token and the
                    \* providers the server holds fallback credentials for

vars == <<now, sessions, sessionHeap, sessionSeq, activeStreams, streamSeq,
          providerHealth, rounds, lastResponse, abortSuccesses, lastCall,
          config>>

---------------------------------------------------------------------------
\* Bounds of the model
MaxRounds == 2
MaxCallbacks == 1
MaxTicks == 3
MaxSessions == 2
TickMs == 150000
MaxDraws == 2
MaxCompletes == 1

\* Program constants
DefaultTtlMs == 5 * 60 * 1000
UpdateTtlMs == 5 * 60 * 1000

Providers == {"anthropic", "openrouter"}
\* part_001:69-88 fallbackConfig after initializeProviders: the providers
\* the server holds fallback credentials for
ServerKeys == config.serverKeys
ApiKeys == {"none", "byok"}
\* The (provider, apiKey) pairs of the requests: one that resolves to the
\* server key and one that resolves to no key at all
Credentials == {<<"anthropic", "none">>, <<"openrouter", "none">>}

NoUsage == [inputTokens |-> 0, outputTokens |-> 0]
RoundUsage == [inputTokens |-> 3, outputTokens |-> 2]

\* NormalizedResponse.content: the text block, then one tool_use block per call
ContentOf(text, calls) ==
    [i \in 1..(1 + Len(calls)) |->
        IF i = 1 THEN [type |-> "text", ref |-> text[1]]
        ELSE [type |-> "tool_use", ref |-> calls[i - 1]]]

\* What membrane.stream can resolve to
NormalResponses ==
    { [aborted |-> FALSE, stopReason |-> sr, toolCalls |-> calls,
       rawAssistantText |-> <<"a">>, content |-> ContentOf(<<"a">>, calls),
       usage |-> RoundUsage] :
      sr \in {"end_turn", "tool_use"}, calls \in {<< >>, <<"t1", "t2">>} }

AbortedResponses ==
    { [aborted |-> TRUE, stopReason |-> "aborted", toolCalls |-> << >>,
       rawAssistantText |-> <<"p">>, content |-> ContentOf(<<"p">>, << >>),
       usage |-> NoUsage] }

\* What membrane.stream can throw: an Error with or without a code
ThrownErrors == {"rate_limit", "nocode"}

\* server.ts:1963 what parseError can be given: an Error whose code is the
\* named string, an Error without a code ("nocode"), an Error whose code is
\* not a string ("numcode"), a thrown value that is no Error ("nonerror")
ErrorInputs ==
    {"rate_limit", "overloaded", "timeout", "invalid_request", "unauthorized",
     "not_found", "nocode", "numcode", "nonerror"}

---------------------------------------------------------------------------
\* Helpers

Range(f) == {f[x] : x \in DOMAIN f}

MapPut(m, k, v) == [x \in (DOMAIN m) \cup {k} |-> IF x = k THEN v ELSE m[x]]

MapDelete(m, k) == [x \in (DOMAIN m) \ {k} |-> m[x]]

EmptyMap == [x \in {} |-> 0]

\* every error that carries a code is reported retryable
parseError_CodedRetryable(err) ==
    IF err = "nonerror"
    THEN [code |-> "unknown_error", retryable |-> FALSE]
    ELSE IF err = "nocode"
    THEN [code |-> "internal_error", retryable |-> FALSE]
    ELSE [code |-> IF err = "numcode" THEN "unknown_error" ELSE err,
          retryable |-> TRUE]

\* server.ts:1963 parseError
parseError(err) ==
    IF err = "nonerror"
    THEN [code |-> "unknown_error", retryable |-> FALSE]
    ELSE IF err = "nocode"
    THEN [code |-> "internal_error", retryable |-> FALSE]
    ELSE [code |-> IF err = "numcode" THEN "unknown_error" ELSE err,
          retryable |-> err \in {"rate_limit", "overloaded", "timeout"}]

\* server.ts:1989 handleError: the status of the error response
handleErrorStatus(code) ==
    IF code = "rate_limit" THEN 429
    ELSE IF code = "unauthorized" THEN 401
    ELSE IF code = "invalid_request" THEN 400
    ELSE IF code = "not_found" THEN 404
    ELSE 500

\* part_001:255 getProviderHealth
getProviderHealth(h, provider) ==
    IF provider \notin DOMAIN h
    THEN [configured |-> FALSE, healthy |-> TRUE]
    ELSE [configured |-> TRUE, healthy |-> h[provider]]

\* part_001:126 createAdapter throws when no key resolves
createMembraneThrows(provider, apiKey) ==
    apiKey = "none" /\ provider \notin ServerKeys

\* part_001:266 updateProviderHealth
updateProviderHealth(h, provider, healthy) == MapPut(h, provider, healthy)

\* an id without its time and random components: the last id again
generateStreamId_Reused == IF streamSeq = 0 THEN 1 ELSE streamSeq

\* server.ts:909 generateStreamId: time + random component, a fresh id
generateStreamId == streamSeq + 1

\* an id without its time and random components: the last id again
generateSessionId_Reused == IF sessionSeq = 0 THEN 1 ELSE sessionSeq

\* sessions.ts:53 generateSessionId: time + random component, a fresh id
generateSessionId == sessionSeq + 1

\* the handler forgets to register its stream
registerStream_Skipped(streams, streamId) == streams

\* server.ts:1252 activeStreams.set(streamId, abortController); the
\* controller of a handler is named by the handler's stream id
registerStream(streams, streamId) == MapPut(streams, streamId, streamId)

\* cleanupStream deletes nothing
cleanupStream_Leaks(streams, streamId) == streams

\* cleanupStream empties the registry
cleanupStream_Clears(streams, streamId) == [x \in {} |-> 0]

\* server.ts:916 cleanupStream
cleanupStream(streams, streamId) == MapDelete(streams, streamId)

\* the test forgets the number of tool calls
requiresToolResults_IgnoresCalls(resp) == resp.stopReason = "tool_use"

\* server.ts:1365 / 1580 does the round hand tool calls to the client
requiresToolResults(resp) ==
    Len(resp.toolCalls) > 0 /\ resp.stopReason = "tool_use"

\* SSE events
StreamStartEvent(id, streams) ==
    [event |-> "stream_start",
     data |-> [streamId |-> id, registered |-> id \in DOMAIN streams]]

ErrorEvent(info) == [event |-> "error", data |-> info]

CallbackEvent(name) == [event |-> name, data |-> [text |-> "c"]]

ToolCallsEvent(calls, sid) ==
    [event |-> "tool_calls", data |-> [calls |-> calls, sessionId |-> sid]]

\* server.ts:1938 buildCompletionResponse, as sent in `done`
DoneEvent(resp) ==
    [event |-> "done",
     data |-> [stopReason |-> resp.stopReason,
               content |-> resp.content,
               rawAssistantText |-> resp.rawAssistantText,
               toolCalls |-> resp.toolCalls,
               usage |-> resp.usage,
               requiresToolResults |-> requiresToolResults(resp)]]

\* the aborted branch passes the collaborator's stop reason through
AbortedDoneEvent_RawStopReason(resp) ==
    [event |-> "done",
     data |-> [stopReason |-> resp.stopReason,
               content |-> resp.content,
               rawAssistantText |-> resp.rawAssistantText,
               toolCalls |-> resp.toolCalls,
               usage |-> resp.usage,
               requiresToolResults |-> FALSE]]

\* server.ts:1394 / 1611 / 1832 the done event of an aborted response
AbortedDoneEvent(resp) ==
    [event |-> "done",
     data |-> [stopReason |-> "end_turn",
               content |-> resp.content,
               rawAssistantText |-> resp.rawAssistantText,
               toolCalls |-> resp.toolCalls,
               usage |-> resp.usage,
               requiresToolResults |-> FALSE]]

CallbackNames(kind) ==
    IF kind = "context"
    THEN {"chunk", "pre_tool_content", "usage"}
    ELSE {"chunk", "block_start", "block_complete", "pre_tool_content", "usage"}

AllCallbackNames ==
    {"chunk", "block_start", "block_complete", "pre_tool_content", "usage"}

RECURSIVE CountCallbacks(_)
CountCallbacks(evs) ==
    IF evs = << >> THEN 0
    ELSE (IF Head(evs).event \in AllCallbackNames THEN 1 ELSE 0)
         + CountCallbacks(Tail(evs))

RECURSIVE TotalCallbacks(_)
TotalCallbacks(rs) ==
    IF DOMAIN rs = {} THEN 0
    ELSE LET r == CHOOSE x \in DOMAIN rs : TRUE
         IN  CountCallbacks(rs[r].events) + TotalCallbacks(MapDelete(rs, r))


---------------------------------------------------------------------------
\* sessions.ts

\* sessions.ts:60 createSession: the new object
NewSession(id, provider, options, request, resp, t, ttlMs) ==
    [id |-> id,
     createdAt |-> t,
     expiresAt |-> t + ttlMs,
     provider |-> provider,
     apiKey |-> options.apiKey,
     providerConfig |-> options.providerConfig,
     membraneOptions |-> options.membraneOptions,
     request |-> request,
     rawAssistantText |-> resp.rawAssistantText,
     contentBlocks |-> resp.content,
     toolCalls |-> resp.toolCalls,
     executedToolResults |-> << >>,
     usage |-> resp.usage]

\* an entry expires at its expiration instant, not after it
Expired_Inclusive(session, t) == session.expiresAt <= t

\* sessions.ts:107 the expiration test of getSession
Expired(session, t) == session.expiresAt < t

\* a lookup that never tests the expiration
SessionLive_IgnoresExpiry(map, heap, id, t) == id \in DOMAIN map

\* sessions.ts:100 getSession: is a session returned
SessionLive(map, heap, id, t) ==
    id \in DOMAIN map /\ ~Expired(heap[map[id]], t)

\* a lookup that puts the id into the Map
getSessionMap_Restores(map, heap, id, t) == MapPut(map, id, id)

\* a lookup that leaves the expired entry in the Map
getSessionMap_NoEvict(map, heap, id, t) == map

\* sessions.ts:100 getSession: the map after the lookup (lazy eviction)
getSessionMap(map, heap, id, t) ==
    IF id \in DOMAIN map /\ Expired(heap[map[id]], t)
    THEN MapDelete(map, id)
    ELSE map

\* every updatable field is overwritten, supplied or not
ObjectAssign_AllFields(session, updates) ==
    [f \in DOMAIN session |->
        IF f \in {"rawAssistantText", "toolCalls", "usage"}
        THEN IF f \in DOMAIN updates THEN updates[f] ELSE << >>
        ELSE session[f]]

\* sessions.ts:127 Object.assign(session, updates): updates holds the
\* fields that were supplied
ObjectAssign(session, updates) ==
    [f \in DOMAIN session |->
        IF f \in DOMAIN updates THEN updates[f] ELSE session[f]]

\* sessions.ts:118 updateSession: the objects after the update
updateSessionHeap(map, heap, id, updates, t) ==
    IF SessionLive(map, heap, id, t)
    THEN [heap EXCEPT ![map[id]] =
            [ObjectAssign(@, updates) EXCEPT !.expiresAt = t + UpdateTtlMs]]
    ELSE heap

\* a delete that empties the Map
deleteSession_Clears(map, id) == [x \in {} |-> 0]

\* a delete that removes nothing
deleteSession_Keeps(map, id) == map

\* sessions.ts:138 deleteSession
deleteSession(map, id) == MapDelete(map, id)

\* sessions.ts:145 getSessionCount
getSessionCount(map) == Cardinality(DOMAIN map)

\* A SessionState object lives while the Map or a handler in flight
\* (server.ts:1448 `session`) refers to it
Collect(heap, map, rs) ==
    [ref \in {x \in DOMAIN heap :
                 x \in Range(map) \/ \E r \in DOMAIN rs : rs[r].session = x}
     |-> heap[ref]]

---------------------------------------------------------------------------
\* The collaborator (membrane.stream / processContext)

\* The outcomes an invocation can resolve to: once the cancellation signal
\* has been raised the collaborator unwinds to an aborted response
CollaboratorResponses(sig) ==
    IF sig THEN AbortedResponses ELSE NormalResponses \cup AbortedResponses

\* The failures an invocation can raise
CollaboratorErrors(sig) == IF sig THEN {} ELSE ErrorInputs

---------------------------------------------------------------------------
\* Rounds

\* server.ts:1372 / 1274 { formatter: req.formatter, retry: req.retry } of
\* a request that names neither
NoMembraneOptions == [formatter |-> "none", retry |-> "none"]

\* a response that is no health report
NoBody == [status |-> "none", providers |-> EmptyMap]

NoRound ==
    [kind |-> "none", status |-> 0, code |-> "none",
     streamId |-> 0, provider |-> "none", apiKey |-> "none",
     continueFrom |-> FALSE, sessionId |-> 0, session |-> 0,
     providerConfig |-> "none", membraneOptions |-> NoMembraneOptions,
     request |-> [messages |-> << >>], events |-> << >>, invokedAt |-> -1,
     deletedAt |-> -1, signalAborted |-> FALSE, outcome |-> "none",
     retryable |-> FALSE, body |-> NoBody]

\* reply.code(status).send(...) of a request that opens no SSE stream; the
\* error replies the handlers write out all carry `retryable: false`
Reply(endpoint, status, code, id) ==
    [NoRound EXCEPT !.kind = endpoint, !.status = status, !.code = code,
                    !.streamId = id]

\* The locals of a streaming handler after `sendEvent(stream_start)`
NewRound(kind, id, provider, apiKey, request, start) ==
    [NoRound EXCEPT !.kind = kind, !.streamId = id, !.provider = provider,
                    !.apiKey = apiKey, !.request = request,
                    !.events = <<start>>, !.status = 200]

\* the collaborator is called before stream_start is sent
Invoke_BeforeStart(round) == [round EXCEPT !.invokedAt = Len(round.events) - 1]

\* The handler calls the collaborator, server.ts:1301 / 1526 / 1768:
\* invokedAt is the number of events sent before the call (-1: no call)
Invoke(round) == [round EXCEPT !.invokedAt = Len(round.events)]

\* The handler sends its last events and returns: what is left of the
\* round is the SSE response the client received
Finish(round, evs, outcome) ==
    [NoRound EXCEPT !.kind = round.kind, !.status = round.status,
                    !.streamId = round.streamId,
                    !.continueFrom = round.continueFrom,
                    !.sessionId = round.sessionId,
                    !.invokedAt = round.invokedAt,
                    !.deletedAt = round.deletedAt,
                    !.signalAborted = round.signalAborted,
                    !.events = round.events \o evs, !.outcome = outcome]

\* the catch block also sends a done event
CatchEvents_AlsoDone(err) ==
    <<ErrorEvent(parseError(err)),
      [event |-> "done", data |-> [stopReason |-> "end_turn"]]>>

\* server.ts:1409-1416 / 1626-1629 / 1869-1876 the catch block
CatchEvents(err) == <<ErrorEvent(parseError(err))>>

\* server.ts:1287-1295 the continueFrom rejection
RejectEvents ==
    <<ErrorEvent([code |-> "use_continue_endpoint", retryable |-> FALSE])>>

\* server.ts:1361-1408 the events after membrane.stream resolved, for a
\* round that hands its tool calls to session sid
ResolvedEvents(resp, sid) ==
    IF ~resp.aborted
    THEN IF requiresToolResults(resp)
         THEN <<ToolCallsEvent(resp.toolCalls, sid), DoneEvent(resp)>>
         ELSE <<DoneEvent(resp)>>
    ELSE <<AbortedDoneEvent(resp)>>

\* server.ts:1361 isAbortedResponse(response)
Outcome(resp) == IF resp.aborted THEN "aborted" ELSE "resolved"

\* server.ts:1903 buildNormalizedRequest
buildNormalizedRequest ==
    [messages |-> <<[participant |-> "User", content |-> <<"hello">>]>>,
     system |-> "sys",
     tools |-> <<"tool">>,
     config |-> [model |-> "m", maxTokens |-> 4096]]

\* server.ts:1232-1301  POST /v1/stream, up to the await
StreamRequest(valid, provider, apiKey, continueFrom) ==
    IF ~valid
    THEN /\ lastResponse' = Reply("stream", 400, "invalid_request", 0)
         /\ UNCHANGED <<config, lastCall, now, sessions, sessionHeap,
                        sessionSeq, activeStreams, streamSeq, providerHealth,
                        rounds, abortSuccesses>>
    ELSE LET id == generateStreamId
             registered == registerStream(activeStreams, id)
             round == [NewRound("stream", id, provider, apiKey,
                           buildNormalizedRequest,
                           StreamStartEvent(id, registered))
                       EXCEPT !.continueFrom = continueFrom]
         IN  /\ streamSeq < MaxRounds
             /\ streamSeq' = id
             /\ IF createMembraneThrows(provider, apiKey)
                THEN /\ lastResponse' =
                           Finish(round, CatchEvents("nocode"), "error")
                     /\ providerHealth' =
                           updateProviderHealth(providerHealth, provider, FALSE)
                     /\ activeStreams' = cleanupStream(registered, id)
                     /\ UNCHANGED rounds
                ELSE IF continueFrom
                THEN /\ lastResponse' = Finish(round, RejectEvents, "rejected")
                     /\ activeStreams' =
                           cleanupStream(cleanupStream(registered, id), id)
                     /\ UNCHANGED <<providerHealth, rounds>>
                ELSE /\ rounds' = MapPut(rounds, id, Invoke(round))
                     /\ activeStreams' = registered
                     /\ UNCHANGED <<providerHealth, lastResponse>>
             /\ UNCHANGED <<config, lastCall, now, sessions, sessionHeap,
                            sessionSeq, abortSuccesses>>

\* server.ts:1305-1352 / 1529-1571 / 1773-1793  the streaming callbacks
Callback(r, name) ==
    /\ r \in DOMAIN rounds
    /\ name \in CallbackNames(rounds[r].kind)
    /\ TotalCallbacks(rounds) < MaxCallbacks
    /\ rounds' = [rounds EXCEPT ![r].events = Append(@, CallbackEvent(name))]
    /\ UNCHANGED <<config, lastCall, now, sessions, sessionHeap, sessionSeq,
                   activeStreams, streamSeq, providerHealth, lastResponse,
                   abortSuccesses>>

\* server.ts:1373-1377 the options createSession is given: what the
\* handler's request carried
SessionOptions(round) ==
    [apiKey |-> round.apiKey, providerConfig |-> round.providerConfig,
     membraneOptions |-> round.membraneOptions]

\* a session is stored for an aborted response as well
StoresSession_AlsoAborted(resp) == resp.aborted \/ requiresToolResults(resp)

\* server.ts:1361-1366 the fresh round stores a session: the response is
\* not aborted and asks for tool results
StoresSession(resp) == ~resp.aborted /\ requiresToolResults(resp)

\* server.ts:1358-1420  POST /v1/stream, after membrane.stream resolved
StreamReturns(r, resp) ==
    /\ r \in DOMAIN rounds
    /\ rounds[r].kind = "stream"
    /\ resp \in CollaboratorResponses(rounds[r].signalAborted)
    /\ providerHealth' =
          updateProviderHealth(providerHealth, rounds[r].provider, TRUE)
    /\ IF StoresSession(resp)
       THEN LET sid == generateSessionId
                session == NewSession(sid, rounds[r].provider,
                               SessionOptions(rounds[r]), rounds[r].request,
                               resp, now, DefaultTtlMs)
            IN  /\ sessionSeq' = sid
                /\ sessionHeap' = MapPut(sessionHeap, sid, session)
                /\ sessions' = MapPut(sessions, sid, sid)
                /\ lastResponse' = Finish(rounds[r],
                       ResolvedEvents(resp, session.id), Outcome(resp))
       ELSE /\ lastResponse' = Finish(rounds[r], ResolvedEvents(resp, 0),
                                   Outcome(resp))
            /\ UNCHANGED <<sessions, sessionHeap, sessionSeq>>
    /\ activeStreams' = cleanupStream(activeStreams, rounds[r].streamId)
    /\ rounds' = MapDelete(rounds, r)
    /\ UNCHANGED <<config, lastCall, now, streamSeq, abortSuccesses>>

\* server.ts:1409-1420 / 1626-1633 / 1869-1880  membrane.stream rejected:
\* catch and finally
InvocationThrows(r, err) ==
    /\ r \in DOMAIN rounds
    /\ err \in CollaboratorErrors(rounds[r].signalAborted)
    /\ providerHealth' =
          updateProviderHealth(providerHealth, rounds[r].provider, FALSE)
    /\ lastResponse' = Finish(rounds[r], CatchEvents(err), "error")
    /\ activeStreams' = cleanupStream(activeStreams, rounds[r].streamId)
    /\ rounds' = MapDelete(rounds, r)
    /\ sessionHeap' = Collect(sessionHeap, sessions, rounds')
    /\ UNCHANGED <<config, lastCall, now, sessions, sessionSeq, streamSeq,
                   abortSuccesses>>

\* a lookup that falls back to some active stream
lookupStream_AnyActive(streams, streamId) ==
    IF streamId \in DOMAIN streams THEN streams[streamId]
    ELSE IF DOMAIN streams # {} THEN streams[CHOOSE k \in DOMAIN streams : TRUE]
    ELSE 0

\* server.ts:1653 activeStreams.get(streamId); 0 is `undefined`
lookupStream(streams, streamId) ==
    IF streamId \in DOMAIN streams THEN streams[streamId] ELSE 0

\* the abort request signals no handle
SignalAbort_Dropped(rs, controller) == rs

\* server.ts:1666 controller.abort()
SignalAbort(rs, controller) ==
    [r \in DOMAIN rs |->
        IF r = controller THEN [rs[r] EXCEPT !.signalAborted = TRUE] ELSE rs[r]]

\* server.ts:1650-1670  POST /v1/abort/:streamId
Abort(streamId) ==
    LET controller == lookupStream(activeStreams, streamId)
    IN  /\ IF controller = 0
           THEN /\ lastResponse' =
                      Reply("abort", 404, "stream_not_found", streamId)
                /\ UNCHANGED <<activeStreams, rounds, abortSuccesses>>
           ELSE /\ rounds' = SignalAbort(rounds, controller)
                /\ activeStreams' = cleanupStream(activeStreams, streamId)
                /\ lastResponse' = Reply("abort", 200, "none", streamId)
                /\ abortSuccesses' =
                      [abortSuccesses EXCEPT ![streamId] = @ + 1]
        /\ UNCHANGED <<config, lastCall, now, sessions, sessionHeap,
                       sessionSeq, streamSeq, providerHealth>>

\* server.ts:1490 body.toolResults.map(...): the results the client submits
\* for the pending calls
ToolResultsFor(calls) ==
    [i \in 1..Len(calls) |->
        [toolUseId |-> calls[i], content |-> "result", isError |-> FALSE]]

\* server.ts:1429-1435 body.toolResults as the client orders it: one result
\* per pending call, in the order of the calls or in the reverse order
SubmittedResults(toolResults, calls) ==
    IF toolResults = "reversed"
    THEN [i \in 1..Len(calls) |-> ToolResultsFor(calls)[Len(calls) + 1 - i]]
    ELSE ToolResultsFor(calls)

\* the membrane is made for the server's own anthropic key, whatever the
\* session stored
MembraneArgs_ServerDefault(session) ==
    [provider |-> "anthropic", apiKey |-> "none",
     providerConfig |-> "none", membraneOptions |-> NoMembraneOptions]

\* server.ts:1482-1487 createMembrane(session.provider, session.apiKey,
\* session.providerConfig, session.membraneOptions)
MembraneArgs(session) ==
    [provider |-> session.provider, apiKey |-> session.apiKey,
     providerConfig |-> session.providerConfig,
     membraneOptions |-> session.membraneOptions]

\* the tool results come before the assistant turn
ContinuedRequest_ResultsFirst(session, toolResults) ==
    [session.request EXCEPT !.messages =
        session.request.messages \o
        << [participant |-> "User",
            content |-> [i \in 1..Len(toolResults) |->
                [type |-> "tool_result",
                 toolUseId |-> toolResults[i].toolUseId,
                 content |-> toolResults[i].content,
                 isError |-> toolResults[i].isError]]],
           [participant |-> "Claude", content |-> session.contentBlocks] >>]

\* server.ts:1499-1522 the continued request
ContinuedRequest(session, toolResults) ==
    [session.request EXCEPT !.messages =
        session.request.messages \o
        << [participant |-> "Claude", content |-> session.contentBlocks],
           [participant |-> "User",
            content |-> [i \in 1..Len(toolResults) |->
                [type |-> "tool_result",
                 toolUseId |-> toolResults[i].toolUseId,
                 content |-> toolResults[i].content,
                 isError |-> toolResults[i].isError]]] >>]

\* server.ts:1427-1526  POST /v1/continue, up to the await
\* sid = 0 is a missing sessionId; toolResults is "absent" (not an array),
\* "nullEntry" (an array holding null), "ok" or "reversed"
ContinueRequest(sid, toolResults) ==
    IF sid = 0 \/ toolResults = "absent"
    THEN /\ lastResponse' = Reply("continue", 400, "invalid_request", 0)
         /\ UNCHANGED <<config, lastCall, now, sessions, sessionHeap,
                        sessionSeq, activeStreams, streamSeq, providerHealth,
                        rounds, abortSuccesses>>
    ELSE IF ~SessionLive(sessions, sessionHeap, sid, now)
    THEN /\ sessions' = getSessionMap(sessions, sessionHeap, sid, now)
         /\ sessionHeap' = Collect(sessionHeap, sessions', rounds)
         /\ lastResponse' = Reply("continue", 404, "session_not_found", 0)
         /\ UNCHANGED <<config, lastCall, now, sessionSeq, activeStreams,
                        streamSeq, providerHealth, rounds, abortSuccesses>>
    ELSE LET ref == sessions[sid]
             session == sessionHeap[ref]
             id == generateStreamId
             registered == registerStream(activeStreams, id)
             results == SubmittedResults(toolResults, session.toolCalls)
             args == MembraneArgs(session)
             round == [NewRound("continue", id, args.provider,
                           args.apiKey, session.request,
                           StreamStartEvent(id, registered))
                       EXCEPT !.sessionId = sid, !.session = ref,
                              !.providerConfig = args.providerConfig,
                              !.membraneOptions = args.membraneOptions]
         IN  /\ streamSeq < MaxRounds
             /\ streamSeq' = id
             /\ IF createMembraneThrows(args.provider, args.apiKey)
                   \/ toolResults = "nullEntry"
                THEN /\ lastResponse' =
                           Finish(round, CatchEvents("nocode"), "error")
                     /\ providerHealth' = updateProviderHealth(
                           providerHealth, session.provider, FALSE)
                     /\ activeStreams' = cleanupStream(registered, id)
                     /\ UNCHANGED <<sessionHeap, rounds>>
                ELSE /\ sessionHeap' =
                           [sessionHeap EXCEPT ![ref].executedToolResults =
                               @ \o results]
                     /\ rounds' = MapPut(rounds, id,
                           Invoke([round EXCEPT !.request =
                                      ContinuedRequest(session, results)]))
                     /\ activeStreams' = registered
                     /\ UNCHANGED <<providerHealth, lastResponse>>
             /\ UNCHANGED <<config, lastCall, now, sessions, sessionSeq,
                            abortSuccesses>>

\* the round's blocks and calls are appended to the session's
ContinueUpdates_Appends(session, resp) ==
    [rawAssistantText |-> session.rawAssistantText \o resp.rawAssistantText,
     contentBlocks |-> session.contentBlocks \o resp.content,
     toolCalls |-> session.toolCalls \o resp.toolCalls,
     usage |-> [inputTokens |->
                    session.usage.inputTokens + resp.usage.inputTokens,
                outputTokens |->
                    session.usage.outputTokens + resp.usage.outputTokens]]

\* the round's text replaces the accumulated text
ContinueUpdates_DropsText(session, resp) ==
    [rawAssistantText |-> resp.rawAssistantText,
     contentBlocks |-> resp.content,
     toolCalls |-> resp.toolCalls,
     usage |-> [inputTokens |->
                    session.usage.inputTokens + resp.usage.inputTokens,
                outputTokens |->
                    session.usage.outputTokens + resp.usage.outputTokens]]

\* the round's usage replaces the running totals
ContinueUpdates_ReplacesUsage(session, resp) ==
    [rawAssistantText |-> session.rawAssistantText \o resp.rawAssistantText,
     contentBlocks |-> resp.content,
     toolCalls |-> resp.toolCalls,
     usage |-> resp.usage]

\* server.ts:1583-1589 the fields a continuation round writes back
ContinueUpdates(session, resp) ==
    [rawAssistantText |-> session.rawAssistantText \o resp.rawAssistantText,
     contentBlocks |-> resp.content,
     toolCalls |-> resp.toolCalls,
     usage |-> [inputTokens |->
                    session.usage.inputTokens + resp.usage.inputTokens,
                outputTokens |->
                    session.usage.outputTokens + resp.usage.outputTokens]]

\* server.ts:1601 / 1609 deleteSession(body.sessionId) as the handler
\* reaches it: deletedAt is the number of events sent before the call
\* (-1: no call)
DeleteSessionAt(round) == [round EXCEPT !.deletedAt = Len(round.events)]

\* server.ts:1574-1633  POST /v1/continue, after membrane.stream resolved
ContinueReturns(r, resp) ==
    /\ r \in DOMAIN rounds
    /\ rounds[r].kind = "continue"
    /\ resp \in CollaboratorResponses(rounds[r].signalAborted)
    /\ LET session == sessionHeap[rounds[r].session]
           sid == rounds[r].sessionId
       IN  /\ providerHealth' =
                 updateProviderHealth(providerHealth, session.provider, TRUE)
           /\ rounds' = MapDelete(rounds, r)
           /\ sessions' =
                 IF ~resp.aborted /\ requiresToolResults(resp)
                 THEN getSessionMap(sessions, sessionHeap, sid, now)
                 ELSE deleteSession(sessions, sid)
           /\ sessionHeap' =
                 IF ~resp.aborted /\ requiresToolResults(resp)
                 THEN Collect(updateSessionHeap(sessions, sessionHeap, sid,
                                  ContinueUpdates(session, resp), now),
                              sessions', rounds')
                 ELSE Collect(sessionHeap, sessions', rounds')
           /\ lastResponse' =
                 IF ~resp.aborted /\ requiresToolResults(resp)
                 THEN Finish(rounds[r], ResolvedEvents(resp, sid),
                             Outcome(resp))
                 ELSE Finish(DeleteSessionAt(rounds[r]),
                             ResolvedEvents(resp, sid), Outcome(resp))
    /\ activeStreams' = cleanupStream(activeStreams, rounds[r].streamId)
    /\ UNCHANGED <<config, lastCall, now, sessionSeq, streamSeq,
                   abortSuccesses>>

\* server.ts:1676-1768  POST /v1/context/stream, up to the await
ContextRequest(valid, provider, apiKey) ==
    IF ~valid
    THEN /\ lastResponse' = Reply("context", 400, "invalid_request", 0)
         /\ UNCHANGED <<config, lastCall, now, sessions, sessionHeap,
                        sessionSeq, activeStreams, streamSeq, providerHealth,
                        rounds, abortSuccesses>>
    ELSE LET id == generateStreamId
             registered == registerStream(activeStreams, id)
             round == NewRound("context", id, provider, apiKey,
                          buildNormalizedRequest,
                          StreamStartEvent(id, registered))
         IN  /\ streamSeq < MaxRounds
             /\ streamSeq' = id
             /\ IF createMembraneThrows(provider, apiKey)
                THEN /\ lastResponse' =
                           Finish(round, CatchEvents("nocode"), "error")
                     /\ providerHealth' =
                           updateProviderHealth(providerHealth, provider, FALSE)
                     /\ activeStreams' = cleanupStream(registered, id)
                     /\ UNCHANGED rounds
                ELSE /\ rounds' = MapPut(rounds, id, Invoke(round))
                     /\ activeStreams' = registered
                     /\ UNCHANGED <<providerHealth, lastResponse>>
             /\ UNCHANGED <<config, lastCall, now, sessions, sessionHeap,
                            sessionSeq, abortSuccesses>>

\* server.ts:1797-1880  POST /v1/context/stream, after processContext resolved
ContextReturns(r, resp) ==
    /\ r \in DOMAIN rounds
    /\ rounds[r].kind = "context"
    /\ resp \in CollaboratorResponses(rounds[r].signalAborted)
    /\ providerHealth' =
          updateProviderHealth(providerHealth, rounds[r].provider, TRUE)
    /\ lastResponse' =
          IF ~resp.aborted
          THEN Finish(rounds[r], <<DoneEvent(resp)>>, Outcome(resp))
          ELSE Finish(rounds[r], <<AbortedDoneEvent(resp)>>, Outcome(resp))
    /\ activeStreams' = cleanupStream(activeStreams, rounds[r].streamId)
    /\ rounds' = MapDelete(rounds, r)
    /\ UNCHANGED <<config, lastCall, now, sessions, sessionHeap, sessionSeq,
                   streamSeq, abortSuccesses>>

\* server.ts:1640-1644  DELETE /v1/sessions/:sessionId
DeleteSessionRequest(sid) ==
    /\ sessions' = deleteSession(sessions, sid)
    /\ sessionHeap' = Collect(sessionHeap, sessions', rounds)
    /\ lastResponse' = Reply("delete", 204, "none", 0)
    /\ UNCHANGED <<config, lastCall, now, sessionSeq, activeStreams, streamSeq,
                   providerHealth, rounds, abortSuccesses>>

\* sessions.ts:41-48  the background sweep
Sweep ==
    /\ sessions' = [id \in {k \in DOMAIN sessions :
                              ~Expired(sessionHeap[sessions[k]], now)}
                    |-> sessions[id]]
    /\ sessionHeap' = Collect(sessionHeap, sessions', rounds)
    /\ UNCHANGED <<config, lastCall, now, sessionSeq, activeStreams, streamSeq,
                   providerHealth, rounds, lastResponse, abortSuccesses>>

\* the clock advances
Tick ==
    /\ now < MaxTicks * TickMs
    /\ now' = now + TickMs
    /\ UNCHANGED <<config, lastCall, sessions, sessionHeap, sessionSeq,
                   activeStreams, streamSeq, providerHealth, rounds,
                   lastResponse, abortSuccesses>>

---------------------------------------------------------------------------
\* /health, /v1/complete and the authentication hook

\* server.ts:974-1001  GET /health: the body
HealthBody(h) ==
    LET providers == [p \in Providers |-> getProviderHealth(h, p)]
        configuredCount ==
            Cardinality({p \in Providers : providers[p].configured})
        healthyCount ==
            Cardinality({p \in Providers :
                            providers[p].configured /\ providers[p].healthy})
    IN  [status |-> IF configuredCount = 0 THEN "ok"
                    ELSE IF healthyCount > 0 THEN "ok"
                    ELSE "degraded",
         providers |-> providers]

\* server.ts:974-1001  GET /health
Health ==
    /\ lastResponse' = [Reply("health", 200, "none", 0) EXCEPT
                            !.body = HealthBody(providerHealth)]
    /\ UNCHANGED <<config, lastCall, now, sessions, sessionHeap, sessionSeq,
                   activeStreams, streamSeq, providerHealth, rounds,
                   abortSuccesses>>

\* the handlers of /v1/complete that can be awaiting membrane.complete:
\* they have no stream id and are kept under keys below 1
CompleteSlots == {0 - k : k \in 0..(MaxCompletes - 1)}

\* server.ts:1188-1216  POST /v1/complete, up to the await
CompleteRequest(valid, provider, apiKey) ==
    IF ~valid
    THEN /\ lastResponse' = Reply("complete", 400, "invalid_request", 0)
         /\ UNCHANGED <<config, lastCall, now, sessions, sessionHeap,
                        sessionSeq, activeStreams, streamSeq, providerHealth,
                        rounds, abortSuccesses>>
    ELSE IF createMembraneThrows(provider, apiKey)
    THEN LET info == parseError("nocode")
         IN  /\ providerHealth' =
                   updateProviderHealth(providerHealth, provider, FALSE)
             /\ lastResponse' =
                   [Reply("complete", handleErrorStatus(info.code),
                          info.code, 0)
                    EXCEPT !.retryable = info.retryable]
             /\ UNCHANGED <<config, lastCall, now, sessions, sessionHeap,
                            sessionSeq, activeStreams, streamSeq, rounds,
                            abortSuccesses>>
    ELSE /\ CompleteSlots \ DOMAIN rounds # {}
         /\ LET slot == CHOOSE k \in CompleteSlots \ DOMAIN rounds : TRUE
            IN  rounds' = MapPut(rounds, slot,
                    [NoRound EXCEPT !.kind = "complete",
                                    !.provider = provider,
                                    !.apiKey = apiKey,
                                    !.request = buildNormalizedRequest,
                                    !.invokedAt = 0])
         /\ UNCHANGED <<config, lastCall, now, sessions, sessionHeap,
                        sessionSeq, activeStreams, streamSeq, providerHealth,
                        lastResponse, abortSuccesses>>

\* server.ts:1218-1221  POST /v1/complete, membrane.complete resolved
CompleteReturns(slot, resp) ==
    /\ slot \in DOMAIN rounds
    /\ rounds[slot].kind = "complete"
    /\ resp \in NormalResponses
    /\ providerHealth' =
          updateProviderHealth(providerHealth, rounds[slot].provider, TRUE)
    /\ lastResponse' = [Reply("complete", 200, "none", 0) EXCEPT
                            !.outcome = "resolved"]
    /\ rounds' = MapDelete(rounds, slot)
    /\ UNCHANGED <<config, lastCall, now, sessions, sessionHeap, sessionSeq,
                   activeStreams, streamSeq, abortSuccesses>>

\* server.ts:1222-1225  POST /v1/complete, membrane.complete rejected
CompleteThrows(slot, err) ==
    /\ slot \in DOMAIN rounds
    /\ rounds[slot].kind = "complete"
    /\ err \in CollaboratorErrors(FALSE)
    /\ providerHealth' =
          updateProviderHealth(providerHealth, rounds[slot].provider, FALSE)
    /\ LET info == parseError(err)
       IN  lastResponse' =
               [Reply("complete", handleErrorStatus(info.code), info.code, 0)
                EXCEPT !.retryable = info.retryable, !.outcome = "error"]
    /\ rounds' = MapDelete(rounds, slot)
    /\ UNCHANGED <<config, lastCall, now, sessions, sessionHeap, sessionSeq,
                   activeStreams, streamSeq, abortSuccesses>>

\* request.url of each endpoint
Route ==
    [health |-> "/health", complete |-> "/v1/complete",
     stream |-> "/v1/stream", continue |-> "/v1/continue",
     context |-> "/v1/context/stream", abort |-> "/v1/abort/:streamId",
     delete |-> "/v1/sessions/:sessionId"]

\* request.headers.authorization: absent, or its first seven characters
\* and the rest (authHeader.slice(7))
AuthHeaders ==
    { [present |-> FALSE, prefix |-> "", rest |-> ""],
      [present |-> TRUE, prefix |-> "Bearer ", rest |-> "secret"],
      [present |-> TRUE, prefix |-> "Bearer ", rest |-> "wrong"],
      [present |-> TRUE, prefix |-> "bearer ", rest |-> "secret"] }

\* a hook that tests the scheme and not the token
Authorized_AnyBearer(kind, header) ==
    \/ config.apiToken = "none"
    \/ Route[kind] = "/health"
    \/ header.present /\ header.prefix = "Bearer "

\* server.ts:937-968 the onRequest hook lets the request through: no hook
\* without a token, /health skipped, else `Bearer ` followed by the token
Authorized(kind, header) ==
    \/ config.apiToken = "none"
    \/ Route[kind] = "/health"
    \/ /\ header.present
       /\ header.prefix = "Bearer "
       /\ header.rest = config.apiToken

\* server.ts:945-966 reply.code(401).send(...) in the hook: the route
\* handler is not run
Unauthorized(kind) ==
    /\ lastResponse' = Reply(kind, 401, "unauthorized", 0)
    /\ UNCHANGED <<config, lastCall, now, sessions, sessionHeap, sessionSeq,
                   activeStreams, streamSeq, providerHealth, rounds,
                   abortSuccesses>>

\* server.ts:937-968 a request to the endpoint kind: the hook, then the
\* synchronous part of the route handler
OnRequest(kind, header, Handler) ==
    IF Authorized(kind, header) THEN Handler ELSE Unauthorized(kind)

---------------------------------------------------------------------------
\* The id generators as they are computed: a time component and a random
\* component that two calls may draw alike

\* server.ts:910 / sessions.ts:54 the strings
\* Math.random().toString(36).slice(2, 10) can give
Draws == 1..MaxDraws

\* server.ts:909 generateStreamId: `str_<Date.now()>_<random>`; the pair is
\* kept as one number, the time in its high part, the draw in its low part
StreamIdAt(t, rnd) == t * (MaxDraws + 1) + rnd

\* sessions.ts:53 generateSessionId: `sess_<Date.now()>_<random>`
SessionIdAt(t, rnd) == t * (MaxDraws + 1) + rnd

\* server.ts:1251-1252 activeStreams.set(streamId, abortController): the
\* controller is the one the handler has just constructed
registerController(streams, streamId, controller) ==
    MapPut(streams, streamId, controller)

\* server.ts:1232-1301  POST /v1/stream, up to the await, handler number h
\* drawing rnd in generateStreamId
StreamRequestDrawn(rnd, valid, provider, apiKey, continueFrom) ==
    IF ~valid
    THEN /\ lastResponse' = Reply("stream", 400, "invalid_request", 0)
         /\ UNCHANGED <<config, lastCall, now, sessions, sessionHeap,
                        sessionSeq, activeStreams, streamSeq, providerHealth,
                        rounds, abortSuccesses>>
    ELSE LET h == streamSeq + 1
             id == StreamIdAt(now, rnd)
             registered == registerController(activeStreams, id, h)
             round == [NewRound("stream", id, provider, apiKey,
                           buildNormalizedRequest,
                           StreamStartEvent(id, registered))
                       EXCEPT !.continueFrom = continueFrom]
         IN  /\ streamSeq < MaxRounds
             /\ streamSeq' = h
             /\ IF createMembraneThrows(provider, apiKey)
                THEN /\ lastResponse' =
                           Finish(round, CatchEvents("nocode"), "error")
                     /\ providerHealth' =
                           updateProviderHealth(providerHealth, provider, FALSE)
                     /\ activeStreams' = cleanupStream(registered, id)
                     /\ UNCHANGED rounds
                ELSE IF continueFrom
                THEN /\ lastResponse' = Finish(round, RejectEvents, "rejected")
                     /\ activeStreams' =
                           cleanupStream(cleanupStream(registered, id), id)
                     /\ UNCHANGED <<providerHealth, rounds>>
                ELSE /\ rounds' = MapPut(rounds, h, Invoke(round))
                     /\ activeStreams' = registered
                     /\ UNCHANGED <<providerHealth, lastResponse>>
             /\ UNCHANGED <<config, lastCall, now, sessions, sessionHeap,
                            sessionSeq, abortSuccesses>>

\* server.ts:1358-1420  POST /v1/stream, after membrane.stream resolved,
\* createSession drawing rnd in generateSessionId
StreamReturnsDrawn(h, resp, rnd) ==
    /\ h \in DOMAIN rounds
    /\ rounds[h].kind = "stream"
    /\ resp \in CollaboratorResponses(rounds[h].signalAborted)
    /\ providerHealth' =
          updateProviderHealth(providerHealth, rounds[h].provider, TRUE)
    /\ rounds' = MapDelete(rounds, h)
    /\ IF ~resp.aborted /\ requiresToolResults(resp)
       THEN LET sid == SessionIdAt(now, rnd)
                ref == sessionSeq + 1
                session == NewSession(sid, rounds[h].provider,
                               SessionOptions(rounds[h]), rounds[h].request,
                               resp, now, DefaultTtlMs)
            IN  /\ sessionSeq < MaxSessions
                /\ sessionSeq' = ref
                /\ sessions' = MapPut(sessions, sid, ref)
                /\ sessionHeap' = Collect(MapPut(sessionHeap, ref, session),
                                          sessions', rounds')
                /\ lastResponse' = Finish(rounds[h],
                       ResolvedEvents(resp, session.id), Outcome(resp))
       ELSE /\ lastResponse' = Finish(rounds[h], ResolvedEvents(resp, 0),
                                   Outcome(resp))
            /\ UNCHANGED <<sessions, sessionHeap, sessionSeq>>
    /\ activeStreams' = cleanupStream(activeStreams, rounds[h].streamId)
    /\ UNCHANGED <<config, lastCall, now, streamSeq, abortSuccesses>>

---------------------------------------------------------------------------
\* sessions.ts called directly, as a module

\* the ttlMs option of createSession: left out (the default) or given
TtlOptions == {DefaultTtlMs, TickMs}

UpdateFields ==
    {"rawAssistantText", "contentBlocks", "toolCalls", "executedToolResults",
     "usage"}

\* sessions.ts:120 the value a caller supplies for a field of `updates`
UpdateValue ==
    [rawAssistantText |-> <<"a", "b">>,
     contentBlocks |-> ContentOf(<<"b">>, <<"t3">>),
     toolCalls |-> <<"t3">>,
     executedToolResults |->
        <<[toolUseId |-> "t1", content |-> "result", isError |-> FALSE]>>,
     usage |-> [inputTokens |-> 13, outputTokens |-> 7]]

\* sessions.ts:120 `updates` is a Partial: any subset of the fields
UpdateInputs ==
    { [f \in fields |-> UpdateValue[f]] :
        fields \in {{}, {"usage"}, {"rawAssistantText", "toolCalls"},
                    UpdateFields} }

\* sessions.ts:77 the options of a createSession call that names no key
NoOptions ==
    [apiKey |-> "none", providerConfig |-> "none",
     membraneOptions |-> NoMembraneOptions]

\* no call yet
NoCall ==
    [fn |-> "none", id |-> 0, ttlMs |-> 0, fields |-> {}, at |-> 0,
     found |-> FALSE, expiresAt |-> -1, count |-> 0]

\* the record of a call made at time t
Call(fn, id, t) == [NoCall EXCEPT !.fn = fn, !.id = id, !.at = t]

\* sessions.ts:60-95 createSession(provider, request, state, options)
CreateSessionWith(provider, options, resp, ttlMs) ==
    LET sid == generateSessionId
        session == NewSession(sid, provider, options,
                       buildNormalizedRequest, resp, now, ttlMs)
    IN  /\ sessionSeq < MaxSessions
        /\ sessionSeq' = sid
        /\ sessionHeap' = MapPut(sessionHeap, sid, session)
        /\ sessions' = MapPut(sessions, sid, sid)
        /\ lastCall' = [Call("createSession", sid, now) EXCEPT
                            !.ttlMs = ttlMs, !.found = TRUE,
                            !.expiresAt = session.expiresAt]
        /\ UNCHANGED <<config, now, activeStreams, streamSeq, providerHealth,
                       rounds, lastResponse, abortSuccesses>>

\* sessions.ts:60-95 createSession(provider, request, state, { ttlMs })
CreateSessionCall(ttlMs) ==
    CreateSessionWith("anthropic", NoOptions,
        CHOOSE r \in NormalResponses : requiresToolResults(r), ttlMs)

\* server.ts:1367-1377 what fresh rounds that stopped for tool_use pass to
\* createSession: the provider and options of their request and the
\* round's response
FirstRounds ==
    { [provider |-> "anthropic", options |-> NoOptions,
       resp |-> [aborted |-> FALSE, stopReason |-> "tool_use",
                 toolCalls |-> <<"t0">>, rawAssistantText |-> <<"f">>,
                 content |-> ContentOf(<<"f">>, <<"t0">>),
                 usage |-> RoundUsage]],
      [provider |-> "openrouter",
       options |-> [apiKey |-> "byok", providerConfig |-> "cfg",
                    membraneOptions |->
                        [formatter |-> "xml", retry |-> "r3"]],
       resp |-> [aborted |-> FALSE, stopReason |-> "tool_use",
                 toolCalls |-> <<"t0", "t9">>, rawAssistantText |-> <<"f">>,
                 content |-> ContentOf(<<"f">>, <<"t0", "t9">>),
                 usage |-> RoundUsage]] }

\* server.ts:1367-1377 the createSession call that ends a fresh round
FreshRoundCreatesSession(first) ==
    CreateSessionWith(first.provider, first.options, first.resp, DefaultTtlMs)

GetSessionCall(id) ==
    /\ sessions' = getSessionMap(sessions, sessionHeap, id, now)
    /\ sessionHeap' = Collect(sessionHeap, sessions', rounds)
    /\ lastCall' =
          IF SessionLive(sessions, sessionHeap, id, now)
          THEN [Call("getSession", id, now) EXCEPT
                   !.found = TRUE,
                   !.expiresAt = sessionHeap[sessions[id]].expiresAt]
          ELSE Call("getSession", id, now)
    /\ UNCHANGED <<config, now, sessionSeq, activeStreams, streamSeq,
                   providerHealth, rounds, lastResponse, abortSuccesses>>

\* sessions.ts:118-133 updateSession(id, updates)
UpdateSessionCall(id, updates) ==
    /\ sessions' = getSessionMap(sessions, sessionHeap, id, now)
    /\ sessionHeap' =
          Collect(updateSessionHeap(sessions, sessionHeap, id, updates, now),
                  sessions', rounds)
    /\ lastCall' =
          IF SessionLive(sessions, sessionHeap, id, now)
          THEN [Call("updateSession", id, now) EXCEPT
                   !.found = TRUE, !.fields = DOMAIN updates,
                   !.expiresAt = sessionHeap'[sessions[id]].expiresAt]
          ELSE [Call("updateSession", id, now) EXCEPT
                   !.fields = DOMAIN updates]
    /\ UNCHANGED <<config, now, sessionSeq, activeStreams, streamSeq,
                   providerHealth, rounds, lastResponse, abortSuccesses>>

\* sessions.ts:138-140 deleteSession(id)
DeleteSessionCall(id) ==
    /\ sessions' = deleteSession(sessions, id)
    /\ sessionHeap' = Collect(sessionHeap, sessions', rounds)
    /\ lastCall' = Call("deleteSession", id, now)
    /\ UNCHANGED <<config, now, sessionSeq, activeStreams, streamSeq,
                   providerHealth, rounds, lastResponse, abortSuccesses>>

\* sessions.ts:145-147 getSessionCount()
GetSessionCountCall ==
    /\ lastCall' = [Call("getSessionCount", 0, now) EXCEPT
                        !.count = getSessionCount(sessions)]
    /\ UNCHANGED <<config, now, sessions, sessionHeap, sessionSeq,
                   activeStreams, streamSeq, providerHealth, rounds,
                   lastResponse, abortSuccesses>>

---------------------------------------------------------------------------
\* The ids a client can name: those generated and one that never was
StreamIds == 1..(MaxRounds + 1)
SessionIds == 0..MaxRounds
ToolResultInputs == {"absent", "nullEntry", "ok"}

\* server.ts:2050 loadConfig: no API token, a fallback key for anthropic
DefaultConfig == [apiToken |-> "none", serverKeys |-> {"anthropic"}]

Init ==
    /\ config = DefaultConfig
    /\ now = 0
    /\ sessions = EmptyMap
    /\ sessionHeap = EmptyMap
    /\ sessionSeq = 0
    /\ activeStreams = EmptyMap
    /\ streamSeq = 0
    /\ providerHealth = [p \in ServerKeys |-> TRUE]
    /\ rounds = EmptyMap
    /\ lastResponse = NoRound
    /\ abortSuccesses = [id \in StreamIds |-> 0]
    /\ lastCall = NoCall

Next ==
    \/ \E valid \in BOOLEAN, cred \in Credentials, continueFrom \in BOOLEAN :
          StreamRequest(valid, cred[1], cred[2], continueFrom)
    \/ \E r \in StreamIds, name \in AllCallbackNames : Callback(r, name)
    \/ \E r \in StreamIds, resp \in NormalResponses \cup AbortedResponses :
          StreamReturns(r, resp)
    \/ \E r \in StreamIds, err \in ThrownErrors : InvocationThrows(r, err)
    \/ \E streamId \in StreamIds : Abort(streamId)
    \/ \E sid \in SessionIds, toolResults \in ToolResultInputs :
          ContinueRequest(sid, toolResults)
    \/ \E r \in StreamIds, resp \in NormalResponses \cup AbortedResponses :
          ContinueReturns(r, resp)
    \/ \E valid \in BOOLEAN, cred \in Credentials :
          ContextRequest(valid, cred[1], cred[2])
    \/ \E r \in StreamIds, resp \in NormalResponses \cup AbortedResponses :
          ContextReturns(r, resp)
    \/ \E sid \in SessionIds : DeleteSessionRequest(sid)
    \/ Sweep
    \/ Tick

Spec == Init /\ [][Next]_vars

\* The collaborator eventually resolves or rejects every invocation
Settle(r) ==
    \/ \E resp \in NormalResponses \cup AbortedResponses :
          \/ StreamReturns(r, resp)
          \/ ContinueReturns(r, resp)
          \/ ContextReturns(r, resp)
    \/ \E err \in ThrownErrors : InvocationThrows(r, err)

FairSpec == Spec /\ \A r \in StreamIds : WF_vars(Settle(r))

\* The session store on its own, driven through its exports
StoreNext ==
    \/ \E ttlMs \in TtlOptions : CreateSessionCall(ttlMs)
    \/ \E id \in SessionIds : GetSessionCall(id)
    \/ \E id \in SessionIds, updates \in UpdateInputs :
          UpdateSessionCall(id, updates)
    \/ \E id \in SessionIds : DeleteSessionCall(id)
    \/ GetSessionCountCall
    \/ Sweep
    \/ Tick

StoreSpec == Init /\ [][StoreNext]_vars

\* The interval timer of the sweep keeps firing
FairStoreSpec == StoreSpec /\ WF_vars(Sweep)

\* server.ts:2050-2056 loadConfig: an API token is configured
TokenConfig == [apiToken |-> "secret", serverKeys |-> {"anthropic"}]

\* server.ts:2050-2056 loadConfig: no API token; a fallback key for
\* anthropic, or for no provider at all (pure BYOK)
KeyConfigs ==
    { [apiToken |-> "none", serverKeys |-> keys] :
        keys \in {{}, {"anthropic"}} }

\* the (provider, apiKey) pairs of the requests: without a key, and with
\* the client's own key
ByokCredentials == Credentials \cup {<<"openrouter", "byok">>}

\* the module state after createServer(cfg)
InitWith(cfg) ==
    /\ config = cfg
    /\ now = 0
    /\ sessions = EmptyMap
    /\ sessionHeap = EmptyMap
    /\ sessionSeq = 0
    /\ activeStreams = EmptyMap
    /\ streamSeq = 0
    /\ providerHealth = [p \in ServerKeys |-> TRUE]
    /\ rounds = EmptyMap
    /\ lastResponse = NoRound
    /\ abortSuccesses = [id \in StreamIds |-> 0]
    /\ lastCall = NoCall

\* a request to an endpoint other than /health arrives with the header,
\* its provider and key among creds
RequestStep(header, creds) ==
    \/ \E valid \in BOOLEAN, cred \in creds :
          OnRequest("complete", header,
              CompleteRequest(valid, cred[1], cred[2]))
    \/ \E valid \in BOOLEAN, cred \in creds, continueFrom \in BOOLEAN :
          OnRequest("stream", header,
              StreamRequest(valid, cred[1], cred[2], continueFrom))
    \/ \E sid \in SessionIds, toolResults \in ToolResultInputs :
          OnRequest("continue", header, ContinueRequest(sid, toolResults))
    \/ \E valid \in BOOLEAN, cred \in creds :
          OnRequest("context", header,
              ContextRequest(valid, cred[1], cred[2]))
    \/ \E streamId \in StreamIds :
          OnRequest("abort", header, Abort(streamId))
    \/ \E sid \in SessionIds :
          OnRequest("delete", header, DeleteSessionRequest(sid))

\* a request to /health arrives with the header
HealthStep(header) == OnRequest("health", header, Health)

\* an awaited invocation settles, its failure among errs
SettleStep(errs) ==
    \/ \E r \in StreamIds, resp \in NormalResponses \cup AbortedResponses :
          \/ StreamReturns(r, resp)
          \/ ContinueReturns(r, resp)
          \/ ContextReturns(r, resp)
    \/ \E r \in StreamIds, err \in errs : InvocationThrows(r, err)
    \/ \E slot \in CompleteSlots, resp \in NormalResponses :
          CompleteReturns(slot, resp)
    \/ \E slot \in CompleteSlots, err \in errs : CompleteThrows(slot, err)

\* The server with an API token configured: every request passes the hook
AuthNext ==
    \/ \E header \in AuthHeaders : RequestStep(header, Credentials)
    \/ \E header \in AuthHeaders : HealthStep(header)
    \/ SettleStep(ThrownErrors)

AuthSpec == InitWith(TokenConfig) /\ [][AuthNext]_vars

\* a request without an Authorization header
NoHeader == [present |-> FALSE, prefix |-> "", rest |-> ""]

\* The server without an API token, with and without a fallback key, the
\* clients bringing their own keys or none, the collaborator failing in
\* every way
ByokNext ==
    \/ RequestStep(NoHeader, ByokCredentials)
    \/ HealthStep(NoHeader)
    \/ SettleStep(ErrorInputs)

ByokSpec == (\E cfg \in KeyConfigs : InitWith(cfg)) /\ [][ByokNext]_vars

\* the toolResults a client submits to a live session
ContinueInputs == ToolResultInputs \cup {"reversed"}

\* The continuation endpoint on sessions that fresh rounds left in the
\* store: the rounds, the sweep and the clock
ContinueNext ==
    \/ \E first \in FirstRounds : FreshRoundCreatesSession(first)
    \/ \E sid \in SessionIds, toolResults \in ContinueInputs :
          ContinueRequest(sid, toolResults)
    \/ \E r \in StreamIds, resp \in NormalResponses \cup AbortedResponses :
          ContinueReturns(r, resp)
    \/ \E r \in StreamIds, err \in ThrownErrors : InvocationThrows(r, err)
    \/ Sweep
    \/ Tick

ContinueSpec == Init /\ [][ContinueNext]_vars

\* The ids the generators can return at the times of the clock
DrawnIds ==
    {StreamIdAt(t * TickMs, rnd) : t \in 0..MaxTicks, rnd \in Draws}

DrawInit ==
    /\ config = DefaultConfig
    /\ now = 0
    /\ sessions = EmptyMap
    /\ sessionHeap = EmptyMap
    /\ sessionSeq = 0
    /\ activeStreams = EmptyMap
    /\ streamSeq = 0
    /\ providerHealth = [p \in ServerKeys |-> TRUE]
    /\ rounds = EmptyMap
    /\ lastResponse = NoRound
    /\ abortSuccesses = [id \in DrawnIds |-> 0]
    /\ lastCall = NoCall

\* The fresh-round endpoint, abort and delete, the generators drawing
DrawNext ==
    \/ \E rnd \in Draws, valid \in BOOLEAN, cred \in Credentials,
          continueFrom \in BOOLEAN :
          StreamRequestDrawn(rnd, valid, cred[1], cred[2], continueFrom)
    \/ \E h \in 1..MaxRounds, resp \in NormalResponses \cup AbortedResponses,
          rnd \in Draws : StreamReturnsDrawn(h, resp, rnd)
    \/ \E h \in 1..MaxRounds, err \in ThrownErrors : InvocationThrows(h, err)
    \/ \E streamId \in DrawnIds : Abort(streamId)
    \/ \E sid \in DrawnIds : DeleteSessionRequest(sid)
    \/ Sweep
    \/ Tick

DrawSpec == DrawInit /\ [][DrawNext]_vars

---------------------------------------------------------------------------
\* Properties

SSEKinds == {"stream", "continue", "context"}

\* the response completed last is a finished round (an SSE stream, opened
\* with status 200), not the plain reply of a rejected request
IsRound(resp) == resp.kind \in SSEKinds /\ resp.status = 200

RECURSIVE CountEvents(_, _)
CountEvents(evs, names) ==
    IF evs = << >> THEN 0
    ELSE (IF Head(evs).event \in names THEN 1 ELSE 0)
         + CountEvents(Tail(evs), names)

LastEvent(resp) == resp.events[Len(resp.events)]

\* the collaborator resolved the round normally, with stop reason tool_use
\* and at least one tool call (read off the done event)
ToolRound(resp) ==
    /\ resp.outcome = "resolved"
    /\ LastEvent(resp).event = "done"
    /\ LastEvent(resp).data.stopReason = "tool_use"
    /\ Len(LastEvent(resp).data.toolCalls) > 0

\* the step completes an abort request for stream id
AbortStep(id) ==
    /\ lastResponse' # lastResponse
    /\ lastResponse'.kind = "abort"
    /\ lastResponse'.streamId = id

\* C1: the stream id of every round whose handler has finished is absent
\* from the registry, whatever the exit path; and, the collaborator settling
\* every invocation, every registered id is eventually removed.
C1_RegistryReleased ==
    /\ [](\A id \in 1..streamSeq :
            id \notin DOMAIN rounds => id \notin DOMAIN activeStreams)
    /\ [](IsRound(lastResponse) =>
            lastResponse.streamId \notin DOMAIN activeStreams)
    /\ \A id \in StreamIds :
          (id \in DOMAIN activeStreams) ~> (id \notin DOMAIN activeStreams)

\* C1 witness: a round ended by a failure of the collaborator, after a
\* callback, and its id is gone from the registry
C1_Witness ==
    /\ IsRound(lastResponse)
    /\ lastResponse.outcome = "error"
    /\ lastResponse.invokedAt >= 1
    /\ Len(lastResponse.events) >= 3
    /\ lastResponse.streamId \notin DOMAIN activeStreams

\* C2 as claimed: an id is in the registry exactly while its invocation has
\* started and its round has not reached a terminal outcome.
C2_Original ==
    \A id \in StreamIds :
        id \in DOMAIN activeStreams <=> id \in DOMAIN rounds

\* C2 amended: an id is in the registry exactly while its invocation has
\* started, its round has not reached a terminal outcome, and no abort
\* request for it has succeeded.
C2_RegistryIffInFlightUnaborted ==
    \A id \in StreamIds :
        id \in DOMAIN activeStreams <=>
            (id \in DOMAIN rounds /\ rounds[id].invokedAt >= 1
             /\ abortSuccesses[id] = 0)

\* C2 witness: an invocation in flight whose stream was aborted
C2_Witness ==
    \E id \in DOMAIN rounds :
        /\ abortSuccesses[id] = 1
        /\ rounds[id].signalAborted
        /\ id \notin DOMAIN activeStreams
        /\ \E other \in DOMAIN activeStreams : other # id

C4_AbortNotFoundIsNoOp ==
    [][\A id \in StreamIds :
          (AbortStep(id) /\ id \notin DOMAIN activeStreams) =>
              /\ lastResponse'.status = 404
              /\ lastResponse'.code = "stream_not_found"
              /\ activeStreams' = activeStreams
              /\ rounds' = rounds
              /\ abortSuccesses' = abortSuccesses]_vars

\* C4 witness: an abort of a finished round answered not-found while
\* another stream is registered
C4_Witness ==
    /\ lastResponse.kind = "abort"
    /\ lastResponse.status = 404
    /\ lastResponse.streamId <= streamSeq
    /\ lastResponse.streamId \notin DOMAIN rounds
    /\ DOMAIN activeStreams # {}

\* C5: a round whose stream was aborted while its invocation was in flight
\* ends with a done event carrying stop reason end_turn and the partial
\* content the collaborator reported, with no error and no tool_calls
\* event; from the abort onward its id is absent from the registry, and no
\* later abort for it reports success.
C5_AbortedRoundEndsDone ==
    /\ (IsRound(lastResponse) /\ lastResponse.signalAborted) =>
          /\ LastEvent(lastResponse).event = "done"
          /\ LastEvent(lastResponse).data.stopReason = "end_turn"
          /\ \E resp \in AbortedResponses :
                /\ LastEvent(lastResponse).data.content = resp.content
                /\ LastEvent(lastResponse).data.rawAssistantText =
                      resp.rawAssistantText
          /\ CountEvents(lastResponse.events, {"error", "tool_calls"}) = 0
          /\ CountEvents(lastResponse.events, {"done"}) = 1
    /\ \A id \in StreamIds :
          abortSuccesses[id] >= 1 =>
              /\ id \notin DOMAIN activeStreams
              /\ abortSuccesses[id] = 1
    /\ \A id \in DOMAIN rounds :
          rounds[id].signalAborted <=> abortSuccesses[id] = 1

\* C5 witness: a continuation round aborted in flight has ended, after a
\* callback, and a later abort of it was not the last thing to happen
C5_Witness ==
    /\ IsRound(lastResponse)
    /\ lastResponse.kind = "continue"
    /\ lastResponse.signalAborted
    /\ abortSuccesses[lastResponse.streamId] = 1
    /\ Len(lastResponse.events) >= 3

\* C6: a fresh or continuation round whose response is not aborted, stops
\* for tool_use and has at least one tool call emits exactly one tool_calls
\* event, right before its done event; every other round emits none.
C6_ToolCallsBeforeDone ==
    /\ \A r \in DOMAIN rounds :
          CountEvents(rounds[r].events, {"tool_calls"}) = 0
    /\ IsRound(lastResponse) =>
          IF lastResponse.kind \in {"stream", "continue"}
             /\ ToolRound(lastResponse)
          THEN /\ CountEvents(lastResponse.events, {"tool_calls"}) = 1
               /\ Len(lastResponse.events) >= 3
               /\ lastResponse.events[Len(lastResponse.events) - 1].event
                     = "tool_calls"
               /\ lastResponse.events[Len(lastResponse.events) - 1].data.calls
                     = LastEvent(lastResponse).data.toolCalls
               /\ CountEvents(lastResponse.events, {"done"}) = 1
          ELSE CountEvents(lastResponse.events, {"tool_calls"}) = 0

\* C6 witness: a continuation round that stopped for tool_use again
C6_Witness ==
    /\ lastResponse.kind = "continue"
    /\ ToolRound(lastResponse)
    /\ CountEvents(lastResponse.events, {"tool_calls"}) = 1

\* the step in which a fresh /v1/stream round ends
StreamRoundEnds ==
    /\ lastResponse' # lastResponse
    /\ IsRound(lastResponse')
    /\ lastResponse'.kind = "stream"

RoundStartsFirst(round) ==
    /\ Len(round.events) >= 1
    /\ round.events[1].event = "stream_start"
    /\ round.events[1].data.streamId = round.streamId
    /\ round.events[1].data.registered
    /\ CountEvents(round.events, {"stream_start"}) = 1
    /\ round.invokedAt # -1 => round.invokedAt >= 1

C8_StreamStartFirst ==
    /\ \A r \in DOMAIN rounds :
          /\ RoundStartsFirst(rounds[r])
          /\ rounds[r].streamId = r
          /\ rounds[r].invokedAt = 1
          /\ ~rounds[r].signalAborted => r \in DOMAIN activeStreams
    /\ IsRound(lastResponse) => RoundStartsFirst(lastResponse)

\* C8 witness: a continuation round in flight, registered, after a callback
C8_Witness ==
    \E r \in DOMAIN rounds :
        /\ rounds[r].kind = "continue"
        /\ Len(rounds[r].events) = 2
        /\ r \in DOMAIN activeStreams

\* C9: a finished round's events end with its single terminal event, done
\* or error; a round in flight has sent none; a round ended by a failure
\* has exactly one error event and no done event.
Terminals == {"done", "error"}

C9_OneTerminalEvent ==
    /\ \A r \in DOMAIN rounds :
          CountEvents(rounds[r].events, Terminals) = 0
    /\ IsRound(lastResponse) =>
          /\ CountEvents(lastResponse.events, Terminals) = 1
          /\ LastEvent(lastResponse).event \in Terminals
          /\ lastResponse.outcome \in {"error", "rejected"} =>
                /\ CountEvents(lastResponse.events, {"error"}) = 1
                /\ CountEvents(lastResponse.events, {"done"}) = 0
          /\ lastResponse.outcome \in {"resolved", "aborted"} =>
                LastEvent(lastResponse).event = "done"

\* C9 witness: the collaborator failed after a callback
C9_Witness ==
    /\ IsRound(lastResponse)
    /\ lastResponse.outcome = "error"
    /\ lastResponse.invokedAt = 1
    /\ Len(lastResponse.events) = 3
    /\ lastResponse.events[2].event \in AllCallbackNames

\* C10 as claimed: a /v1/stream request carrying continueFrom is answered
\* with the use_continue_endpoint error, no stream is ever registered for
\* it and the collaborator is never invoked.
C10_Original ==
    (lastResponse.kind = "stream" /\ lastResponse.continueFrom) =>
        /\ LastEvent(lastResponse).event = "error"
        /\ LastEvent(lastResponse).data.code = "use_continue_endpoint"
        /\ \A i \in DOMAIN lastResponse.events :
              lastResponse.events[i].event = "stream_start" =>
                  ~lastResponse.events[i].data.registered
        /\ lastResponse.invokedAt = -1

\* the sessions other than id are the same objects with the same fields
OthersUntouched(id) ==
    /\ DOMAIN sessions' \ {id} = DOMAIN sessions \ {id}
    /\ \A k \in DOMAIN sessions \ {id} :
          sessionHeap'[sessions'[k]] = sessionHeap[sessions[k]]

\* C11: a continuation request that names a session id which is not in the
\* store (unknown or deleted) or whose expiration has passed is answered
\* 404 session_not_found: no stream id is generated or registered, no SSE
\* event is sent, the collaborator is not invoked, and the only change to
\* the store is the eviction of that expired session.
C11_ContinueSessionNotFound ==
    [][\A sid \in SessionIds \ {0}, tr \in ToolResultInputs \ {"absent"} :
          (/\ ContinueRequest(sid, tr)
           /\ \/ sid \notin DOMAIN sessions
              \/ sessionHeap[sessions[sid]].expiresAt < now) =>
              /\ lastResponse'.kind = "continue"
              /\ lastResponse'.status = 404
              /\ lastResponse'.code = "session_not_found"
              /\ lastResponse'.events = << >>
              /\ lastResponse'.invokedAt = -1
              /\ activeStreams' = activeStreams
              /\ streamSeq' = streamSeq
              /\ rounds' = rounds
              /\ sid \notin DOMAIN sessions'
              /\ OthersUntouched(sid)]_vars

\* C11 witness: a continuation of the only session ever created was refused
\* after the session expired, while another round is in flight
C11_Witness ==
    /\ lastResponse.kind = "continue"
    /\ lastResponse.status = 404
    /\ sessionSeq = 1
    /\ 1 \notin DOMAIN sessions
    /\ now > DefaultTtlMs
    /\ DOMAIN rounds # {}

\* C12 as claimed: a continuation request whose toolResults is absent, is
\* not an array, or is an array with an entry that is no tool result, is
\* answered 400 invalid_request; no stream is registered, the collaborator
\* is not invoked and the session store is unchanged.
C12_Original ==
    [][\A sid \in SessionIds, tr \in {"absent", "nullEntry"} :
          (/\ ContinueRequest(sid, tr)
           /\ \/ tr = "absent"
              \/ sid = 0
              \/ SessionLive(sessions, sessionHeap, sid, now)) =>
              /\ lastResponse'.kind = "continue"
              /\ lastResponse'.status = 400
              /\ lastResponse'.code = "invalid_request"
              /\ lastResponse'.events = << >>
              /\ activeStreams' = activeStreams
              /\ streamSeq' = streamSeq
              /\ rounds' = rounds
              /\ sessions' = sessions
              /\ sessionHeap' = sessionHeap]_vars

\* a continuation round that ended aborted, or resolved without handing
\* tool calls to the client
EndsSession(resp) ==
    /\ IsRound(resp)
    /\ resp.kind = "continue"
    /\ resp.outcome \in {"aborted", "resolved"}
    /\ ~ToolRound(resp)

\* the step in which the handler of continuation round r returns from
\* its invocation with response resp
ContinueEnds(r, resp) ==
    /\ ContinueReturns(r, resp)
    /\ \/ resp.aborted
       \/ ~(resp.stopReason = "tool_use" /\ Len(resp.toolCalls) > 0)

\* C13 as claimed: when a continuation round ends aborted or without further
\* tool calls, its session is removed from the store after the round's final
\* done event has been sent.
C13_Original ==
    EndsSession(lastResponse) =>
        /\ lastResponse.sessionId \notin DOMAIN sessions
        /\ LastEvent(lastResponse).event = "done"
        /\ lastResponse.deletedAt = Len(lastResponse.events)

\* C13 amended: when a continuation round ends aborted or without further
\* tool calls, its session is removed from the store in the handler step
\* that sends the round's final done event, the removal coming right before
\* that event; the id is not resumable from then on, the live count drops
\* by one if the session was still stored, and no other session changes.
C13_SessionRemovedBeforeDone ==
    /\ [](EndsSession(lastResponse) =>
            /\ lastResponse.sessionId \notin DOMAIN sessions
            /\ LastEvent(lastResponse).event = "done"
            /\ lastResponse.deletedAt = Len(lastResponse.events) - 1)
    /\ [][\A r \in StreamIds, resp \in NormalResponses \cup AbortedResponses :
            ContinueEnds(r, resp) =>
                /\ EndsSession(lastResponse')
                /\ rounds[r].sessionId \notin DOMAIN sessions'
                /\ OthersUntouched(rounds[r].sessionId)
                /\ getSessionCount(sessions') =
                      IF rounds[r].sessionId \in DOMAIN sessions
                      THEN getSessionCount(sessions) - 1
                      ELSE getSessionCount(sessions)]_vars

\* C13 witness: a continuation round ended without tool calls after a
\* callback, and the one session created is gone
C13_Witness ==
    /\ EndsSession(lastResponse)
    /\ lastResponse.outcome = "resolved"
    /\ Len(lastResponse.events) = 3
    /\ lastResponse.deletedAt = 2
    /\ sessionSeq = 1
    /\ getSessionCount(sessions) = 0
    /\ now < DefaultTtlMs

\* the session named id is stored and its expiration has not passed
Stored(id) ==
    /\ id \in DOMAIN sessions
    /\ sessionHeap[sessions[id]].expiresAt >= now

\* C14: when a continuation round stops for tool_use with at least one call
\* and its session is still stored, the session's input and output token
\* totals after the round are the totals before it plus the round's own
\* usage, while the round's done event carries the round's own usage only.
C14_UsageAccumulates ==
    [][\A r \in StreamIds, resp \in NormalResponses :
          (/\ ContinueReturns(r, resp)
           /\ resp.stopReason = "tool_use"
           /\ Len(resp.toolCalls) > 0
           /\ Stored(rounds[r].sessionId)) =>
              LET sid == rounds[r].sessionId
                  before == sessionHeap[sessions[sid]].usage
                  after == sessionHeap'[sessions'[sid]].usage
                  done == LastEvent(lastResponse')
              IN  /\ after.inputTokens =
                        before.inputTokens + resp.usage.inputTokens
                  /\ after.outputTokens =
                        before.outputTokens + resp.usage.outputTokens
                  /\ done.event = "done"
                  /\ done.data.usage = resp.usage
                  /\ resp.usage = RoundUsage]_vars

\* C14 witness: after a continuation round that stopped for tool_use the
\* session holds the sum of two rounds while done carried one round's usage
C14_Witness ==
    /\ lastResponse.kind = "continue"
    /\ ToolRound(lastResponse)
    /\ LastEvent(lastResponse).data.usage = RoundUsage
    /\ Stored(lastResponse.sessionId)
    /\ sessionHeap[sessions[lastResponse.sessionId]].usage =
          [inputTokens |-> 2 * RoundUsage.inputTokens,
           outputTokens |-> 2 * RoundUsage.outputTokens]

\* the last call was a lookup that returned a session
LookupFound ==
    /\ lastCall.fn \in {"getSession", "updateSession"}
    /\ lastCall.found

\* the step is a lookup of id: getSession, or updateSession with any updates
LookupCall(id) ==
    \/ GetSessionCall(id)
    \/ \E updates \in UpdateInputs : UpdateSessionCall(id, updates)

\* C15 as claimed: every session a lookup returns has an expiresAt strictly
\* later than the time of the lookup.
C15_Original == LookupFound => lastCall.expiresAt > lastCall.at

\* C15 amended: every session a lookup returns has an expiresAt that is not
\* earlier than the time of the lookup (it may equal it); a lookup of an
\* entry whose expiresAt is earlier than the current time evicts it and
\* returns not-found, and a lookup of any other entry returns it and keeps
\* it in the store.
C15_LookupNotBeforeExpiry ==
    /\ [](LookupFound => lastCall.expiresAt >= lastCall.at)
    /\ [][\A id \in DOMAIN sessions :
            LookupCall(id) =>
                IF sessionHeap[sessions[id]].expiresAt < now
                THEN /\ ~lastCall'.found
                     /\ id \notin DOMAIN sessions'
                ELSE /\ lastCall'.found
                     /\ lastCall'.id = id
                     /\ id \in DOMAIN sessions']_vars

\* C15 witness: getSession returned a session at the very instant of its
\* expiration
C15_Witness ==
    /\ lastCall.fn = "getSession"
    /\ lastCall.found
    /\ lastCall.expiresAt = lastCall.at
    /\ lastCall.id \in DOMAIN sessions

C17_Original ==
    [][\A id \in SessionIds, updates \in UpdateInputs :
          (/\ lastCall.fn = "createSession"
           /\ lastCall.id = id
           /\ UpdateSessionCall(id, updates)
           /\ lastCall'.found) =>
              /\ lastCall'.expiresAt = now + lastCall.ttlMs
              /\ sessionHeap'[sessions'[id]].expiresAt =
                    now + lastCall.ttlMs]_vars

\* after the step, the fields of session id named in keep are as before and
\* those supplied in updates have the supplied values
Merged(id, updates, keep) ==
    LET old == sessionHeap[sessions[id]]
        new == sessionHeap'[sessions'[id]]
    IN  /\ DOMAIN new = DOMAIN old
        /\ \A f \in DOMAIN updates : new[f] = updates[f]
        /\ \A f \in keep \ DOMAIN updates : new[f] = old[f]

\* updateSession found no session: nothing was applied
NothingApplied(id) ==
    /\ ~lastCall'.found
    /\ id \notin DOMAIN sessions'
    /\ OthersUntouched(id)

SessionFields ==
    {"id", "createdAt", "expiresAt", "provider", "apiKey", "providerConfig",
     "membraneOptions", "request", "rawAssistantText", "contentBlocks",
     "toolCalls", "executedToolResults", "usage"}

\* C18 as claimed: updateSession on an absent or expired id returns
\* not-found and applies nothing; on a live session it sets the supplied
\* fields and leaves every field that was not supplied unchanged.
C18_Original ==
    [][\A id \in SessionIds, updates \in UpdateInputs :
          UpdateSessionCall(id, updates) =>
              IF Stored(id)
              THEN /\ lastCall'.found
                   /\ Merged(id, updates, SessionFields)
                   /\ OthersUntouched(id)
              ELSE NothingApplied(id)]_vars

\* C18 amended: updateSession on an absent or expired id returns not-found
\* and applies nothing, its only possible effect being the eviction of the
\* expired entry; on a live session it sets the supplied fields, resets
\* expiresAt to now + 5 minutes, and leaves every other field unchanged.
C18_UpdateMergesSupplied ==
    [][\A id \in SessionIds, updates \in UpdateInputs :
          UpdateSessionCall(id, updates) =>
              IF Stored(id)
              THEN /\ lastCall'.found
                   /\ Merged(id, updates, SessionFields \ {"expiresAt"})
                   /\ sessionHeap'[sessions'[id]].expiresAt = now + UpdateTtlMs
                   /\ OthersUntouched(id)
              ELSE NothingApplied(id)]_vars

\* C18 witness: an update that supplied usage alone, made after the clock
\* moved, left the tool calls of the session as they were created
C18_Witness ==
    /\ lastCall.fn = "updateSession"
    /\ lastCall.found
    /\ lastCall.fields = {"usage"}
    /\ lastCall.at > 0
    /\ lastCall.id \in DOMAIN sessions
    /\ sessionHeap[sessions[lastCall.id]].usage = UpdateValue.usage
    /\ sessionHeap[sessions[lastCall.id]].toolCalls = <<"t1", "t2">>
    /\ sessionHeap[sessions[lastCall.id]].createdAt = 0

\* C19: the delete-session endpoint answers 204 for every id, stored or
\* not; afterwards the id is not in the store and every other session is
\* as it was; when the id was not stored the store is unchanged; deleting
\* again changes nothing more; streams and rounds are not touched.
C19_DeleteIdempotent ==
    [][\A sid \in SessionIds :
          DeleteSessionRequest(sid) =>
              /\ lastResponse'.kind = "delete"
              /\ lastResponse'.status = 204
              /\ sid \notin DOMAIN sessions'
              /\ OthersUntouched(sid)
              /\ sid \notin DOMAIN sessions =>
                    /\ sessions' = sessions
                    /\ sessionHeap' = sessionHeap
              /\ deleteSession(sessions', sid) = sessions'
              /\ deleteSession(deleteSession(sessions, sid), sid) =
                    deleteSession(sessions, sid)
              /\ activeStreams' = activeStreams
              /\ rounds' = rounds]_vars

\* C19 witness: one of two stored sessions was deleted through the endpoint
\* and the other is still stored
C19_Witness ==
    /\ lastResponse.kind = "delete"
    /\ lastResponse.status = 204
    /\ sessionSeq = 2
    /\ getSessionCount(sessions) = 1
    /\ now = 0

\* C20: a run of the sweep removes exactly the sessions whose expiresAt is
\* earlier than the current time and leaves the others as they are; the
\* sweep's timer firing again and again, every stored session whose
\* expiration has passed is eventually out of the store.
C20_SweepRemovesExpired ==
    /\ [][Sweep =>
            /\ DOMAIN sessions' =
                  {k \in DOMAIN sessions :
                      ~(sessionHeap[sessions[k]].expiresAt < now)}
            /\ \A k \in DOMAIN sessions' :
                  sessionHeap'[sessions'[k]] = sessionHeap[sessions[k]]]_vars
    /\ \A id \in SessionIds :
          (id \in DOMAIN sessions
           /\ sessionHeap[sessions[id]].expiresAt < now)
             ~> (id \notin DOMAIN sessions)

\* C20 witness: of two sessions created at time 0 the one with the short
\* ttl is gone and the other is still stored at its expiration instant,
\* no call having been made since the second was created
C20_Witness ==
    /\ lastCall.fn = "createSession"
    /\ lastCall.id = 2
    /\ lastCall.at = 0
    /\ lastCall.ttlMs = DefaultTtlMs
    /\ now = DefaultTtlMs
    /\ DOMAIN sessions = {2}

\* the step in which a /v1/stream handler registers stream id, whatever
\* the rest of its request
RegistersDrawn(rnd) ==
    \E cred \in Credentials, continueFrom \in BOOLEAN :
        StreamRequestDrawn(rnd, TRUE, cred[1], cred[2], continueFrom)

\* C21 as claimed: registering a stream id that is already in the registry
\* fails with an error and leaves the existing entry and its cancellation
\* handle in place: a registered handle is never replaced by another
\* registration.
C21_Original ==
    [][\A rnd \in Draws :
          (/\ RegistersDrawn(rnd)
           /\ StreamIdAt(now, rnd) \in DOMAIN activeStreams) =>
              /\ StreamIdAt(now, rnd) \in DOMAIN activeStreams'
              /\ activeStreams'[StreamIdAt(now, rnd)] =
                    activeStreams[StreamIdAt(now, rnd)]
              /\ rounds' = rounds
              /\ lastResponse' # lastResponse
              /\ LastEvent(lastResponse').event = "error"]_vars

\* the step in which createSession is called with draw rnd, at the end of
\* a fresh round that stopped for tool_use
CreatesDrawn(rnd) ==
    \E h \in 1..MaxRounds, resp \in NormalResponses :
        /\ StreamReturnsDrawn(h, resp, rnd)
        /\ resp.stopReason = "tool_use"
        /\ Len(resp.toolCalls) > 0

\* C22 as claimed: createSession never returns an id that is already in the
\* store: creating a session increases the live count by exactly one and
\* never replaces, removes or alters another stored session.
C22_Original ==
    [][\A rnd \in Draws :
          CreatesDrawn(rnd) =>
              /\ SessionIdAt(now, rnd) \notin DOMAIN sessions
              /\ SessionIdAt(now, rnd) \in DOMAIN sessions'
              /\ getSessionCount(sessions') = getSessionCount(sessions) + 1
              /\ \A k \in DOMAIN sessions :
                    /\ k \in DOMAIN sessions'
                    /\ sessions'[k] = sessions[k]
                    /\ sessionHeap'[sessions'[k]] =
                          sessionHeap[sessions[k]]]_vars

\* the continuation rounds of session sid whose invocation is in flight
InFlightOn(sid) ==
    {r \in DOMAIN rounds :
        rounds[r].kind = "continue" /\ rounds[r].sessionId = sid}

\* the step in which a continuation request for the stored session sid,
\* submitting its results as toolResults, reaches the collaborator
ContinueAccepted(sid, toolResults) ==
    /\ ContinueRequest(sid, toolResults)
    /\ sid \in DOMAIN sessions
    /\ sessionHeap[sessions[sid]].expiresAt >= now
    /\ toolResults \in {"ok", "reversed"}
    /\ sessionHeap[sessions[sid]].provider \in ServerKeys
          \/ sessionHeap[sessions[sid]].apiKey # "none"

\* C23: a continuation request for a live session is accepted whether or
\* not other continuation rounds of the same session are in flight: it is
\* answered with an SSE stream, it registers a stream id of its own, it
\* invokes the collaborator after stream_start, and the rounds in flight
\* and their registry entries stay as they are; nothing about the rounds
\* in flight stands in the way of the request.
C23_ConcurrentContinuesAccepted ==
    /\ [][\A sid \in SessionIds, tr \in ContinueInputs :
            ContinueAccepted(sid, tr) =>
                /\ lastResponse' = lastResponse
                /\ \E r \in DOMAIN rounds' \ DOMAIN rounds :
                      /\ DOMAIN rounds' = DOMAIN rounds \cup {r}
                      /\ rounds'[r].kind = "continue"
                      /\ rounds'[r].status = 200
                      /\ rounds'[r].sessionId = sid
                      /\ rounds'[r].streamId = r
                      /\ rounds'[r].invokedAt = 1
                      /\ rounds'[r].events[1].event = "stream_start"
                      /\ r \notin DOMAIN activeStreams
                      /\ DOMAIN activeStreams' = DOMAIN activeStreams \cup {r}
                      /\ activeStreams'[r] = r
                /\ \A r \in DOMAIN rounds :
                      /\ rounds'[r] = rounds[r]
                      /\ r \in DOMAIN activeStreams =>
                            activeStreams'[r] = activeStreams[r]]_vars
    /\ [](\A sid \in DOMAIN sessions :
            (/\ InFlightOn(sid) # {}
             /\ sessionHeap[sessions[sid]].expiresAt >= now
             /\ streamSeq < MaxRounds) =>
                ENABLED ContinueAccepted(sid, "ok"))

\* C23 witness: two continuation rounds of one session are in flight, each
\* with its own registered stream, and the clock has moved since the
\* session was created
C23_Witness ==
    \E r1, r2 \in DOMAIN rounds :
        /\ r1 # r2
        /\ rounds[r1].kind = "continue"
        /\ rounds[r2].kind = "continue"
        /\ rounds[r1].sessionId = rounds[r2].sessionId
        /\ rounds[r1].invokedAt = 1
        /\ rounds[r2].invokedAt = 1
        /\ {r1, r2} \subseteq DOMAIN activeStreams
        /\ activeStreams[r1] # activeStreams[r2]
        /\ now > 0

\* the fields of a session that are set when it is created
CreationFields ==
    {"id", "createdAt", "provider", "apiKey", "providerConfig",
     "membraneOptions", "request"}

\* C24: a session is created with the provider, API key, provider
\* configuration and formatter/retry options of its fresh round; no step
\* (continuation request, update on a tool-use return, sweep) changes the
\* id, createdAt, provider, credentials, options or stored request of a
\* session object; and every continuation round that reaches the
\* collaborator makes its membrane from the stored provider, API key,
\* provider configuration and formatter/retry options.
C24_ContinuationUsesStoredContext ==
    /\ [][\A first \in FirstRounds :
            FreshRoundCreatesSession(first) =>
                \E sid \in DOMAIN sessions' \ DOMAIN sessions :
                    LET new == sessionHeap'[sessions'[sid]]
                    IN  /\ new.id = sid
                        /\ new.createdAt = now
                        /\ new.provider = first.provider
                        /\ new.apiKey = first.options.apiKey
                        /\ new.providerConfig = first.options.providerConfig
                        /\ new.membraneOptions =
                              first.options.membraneOptions]_vars
    /\ [][\A ref \in DOMAIN sessionHeap \cap DOMAIN sessionHeap' :
            \A f \in CreationFields :
                sessionHeap'[ref][f] = sessionHeap[ref][f]]_vars
    /\ [][\A sid \in SessionIds, tr \in ContinueInputs :
            ContinueAccepted(sid, tr) =>
                \E r \in DOMAIN rounds' \ DOMAIN rounds :
                    LET stored == sessionHeap[sessions[sid]]
                    IN  /\ rounds'[r].provider = stored.provider
                        /\ rounds'[r].apiKey = stored.apiKey
                        /\ rounds'[r].providerConfig = stored.providerConfig
                        /\ rounds'[r].membraneOptions =
                              stored.membraneOptions
                        /\ rounds'[r].invokedAt = 1]_vars

\* C24 witness: a second continuation round of a session created with a
\* client key, a provider configuration and a formatter is in flight with
\* that context, after a first round updated the session and the clock
\* moved
C24_Witness ==
    \E r \in DOMAIN rounds :
        /\ rounds[r].kind = "continue"
        /\ rounds[r].provider = "openrouter"
        /\ rounds[r].apiKey = "byok"
        /\ rounds[r].providerConfig = "cfg"
        /\ rounds[r].membraneOptions = [formatter |-> "xml", retry |-> "r3"]
        /\ rounds[r].sessionId \in DOMAIN sessions
        /\ sessionHeap[rounds[r].session].rawAssistantText = <<"f", "a">>
        /\ sessionHeap[rounds[r].session].expiresAt > DefaultTtlMs

\* C29: the request a continuation round passes to the collaborator has
\* the stored request's messages followed by exactly two turns: an
\* assistant turn whose content is the session's current content blocks,
\* the tool_use block of every pending call among them, then one User turn
\* holding one tool_result per submitted result in the submitted order;
\* every other field of the request equals the stored request's.
C29_ContinuedRequestShape ==
    [][\A sid \in SessionIds, tr \in ContinueInputs :
          ContinueAccepted(sid, tr) =>
              \E r \in DOMAIN rounds' \ DOMAIN rounds :
                  LET stored == sessionHeap[sessions[sid]]
                      old == stored.request
                      req == rounds'[r].request
                      n == Len(old.messages)
                      calls == stored.toolCalls
                      submitted ==
                          [i \in 1..Len(calls) |->
                              IF tr = "reversed"
                              THEN calls[Len(calls) + 1 - i]
                              ELSE calls[i]]
                  IN  /\ DOMAIN req = DOMAIN old
                      /\ \A f \in DOMAIN old \ {"messages"} : req[f] = old[f]
                      /\ Len(req.messages) = n + 2
                      /\ \A i \in 1..n : req.messages[i] = old.messages[i]
                      /\ req.messages[n + 1].participant = "Claude"
                      /\ req.messages[n + 1].content = stored.contentBlocks
                      /\ \A i \in 1..Len(calls) :
                            \E j \in 1..Len(stored.contentBlocks) :
                                /\ stored.contentBlocks[j].type = "tool_use"
                                /\ stored.contentBlocks[j].ref = calls[i]
                      /\ req.messages[n + 2].participant = "User"
                      /\ Len(req.messages[n + 2].content) = Len(submitted)
                      /\ \A i \in 1..Len(submitted) :
                            /\ req.messages[n + 2].content[i].type =
                                  "tool_result"
                            /\ req.messages[n + 2].content[i].toolUseId =
                                  submitted[i]
                            /\ req.messages[n + 2].content[i].content =
                                  "result"
                      /\ rounds'[r].invokedAt = 1
                      /\ sessionHeap'[sessions'[sid]].request = old]_vars

\* C29 witness: a continuation round is in flight whose request ends with
\* the assistant turn of the latest round and a User turn with the two
\* results in the order the client gave, the reverse of the calls', after
\* an earlier continuation round replaced the session's blocks
C29_Witness ==
    \E r \in DOMAIN rounds :
        /\ rounds[r].kind = "continue"
        /\ rounds[r].invokedAt = 1
        /\ Len(rounds[r].request.messages) = 3
        /\ rounds[r].request.messages[1] = buildNormalizedRequest.messages[1]
        /\ rounds[r].request.messages[2].content =
              ContentOf(<<"a">>, <<"t1", "t2">>)
        /\ rounds[r].request.messages[3].content[1].toolUseId = "t2"
        /\ rounds[r].request.messages[3].content[2].toolUseId = "t1"
        /\ rounds[r].request.config = buildNormalizedRequest.config

\* C30: when a continuation round stops for tool_use with at least one
\* call and its session is still stored, the session's raw assistant text
\* becomes the text it had followed by the round's text, and its content
\* blocks and pending tool calls become exactly the round's blocks and
\* calls: those of the earlier round are gone.
C30_TextAppendedBlocksReplaced ==
    [][\A r \in StreamIds, resp \in NormalResponses :
          (/\ ContinueReturns(r, resp)
           /\ resp.stopReason = "tool_use"
           /\ Len(resp.toolCalls) > 0
           /\ Stored(rounds[r].sessionId)) =>
              LET sid == rounds[r].sessionId
                  before == sessionHeap[sessions[sid]]
                  after == sessionHeap'[sessions'[sid]]
                  k == Len(before.rawAssistantText)
              IN  /\ Len(after.rawAssistantText) =
                        k + Len(resp.rawAssistantText)
                  /\ \A i \in 1..k :
                        after.rawAssistantText[i] = before.rawAssistantText[i]
                  /\ \A i \in 1..Len(resp.rawAssistantText) :
                        after.rawAssistantText[k + i] =
                            resp.rawAssistantText[i]
                  /\ after.contentBlocks = resp.content
                  /\ after.toolCalls = resp.toolCalls
                  /\ after.executedToolResults =
                        before.executedToolResults]_vars

\* C30 witness: after a continuation round that stopped for tool_use the
\* session created with text f and call t0 holds the text f, a and the
\* calls t1, t2 of the round
C30_Witness ==
    /\ lastResponse.kind = "continue"
    /\ ToolRound(lastResponse)
    /\ Stored(lastResponse.sessionId)
    /\ LET session == sessionHeap[sessions[lastResponse.sessionId]]
       IN  /\ session.rawAssistantText = <<"f", "a">>
           /\ session.toolCalls = <<"t1", "t2">>
           /\ session.contentBlocks = ContentOf(<<"a">>, <<"t1", "t2">>)
           /\ Len(session.executedToolResults) = 1

\* the codes a client may retry
RetryableCodes == {"rate_limit", "overloaded", "timeout"}

\* C25: in every error event sent on a stream and in every error response,
\* retryable is true exactly when the reported code is rate_limit,
\* overloaded or timeout.
C25_RetryableIffTransient ==
    /\ \A i \in DOMAIN lastResponse.events :
          lastResponse.events[i].event = "error" =>
              (lastResponse.events[i].data.retryable <=>
                  lastResponse.events[i].data.code \in RetryableCodes)
    /\ lastResponse.status >= 400 =>
          (lastResponse.retryable <=> lastResponse.code \in RetryableCodes)
    /\ \A r \in DOMAIN rounds : \A i \in DOMAIN rounds[r].events :
          rounds[r].events[i].event # "error"

\* C25 witness: a continuation round ended with a retryable timeout error
\* event, after /v1/complete had answered an unauthorized error of the
\* collaborator, which made the provider unhealthy
C25_Witness ==
    /\ IsRound(lastResponse)
    /\ lastResponse.kind = "continue"
    /\ LastEvent(lastResponse).event = "error"
    /\ LastEvent(lastResponse).data.code = "timeout"
    /\ LastEvent(lastResponse).data.retryable
    /\ "openrouter" \in DOMAIN providerHealth
    /\ ~providerHealth["openrouter"]

\* the header does not carry the configured token
BadHeader(header) ==
    \/ ~header.present
    \/ header.prefix # "Bearer "
    \/ header.rest # config.apiToken

C27_Original ==
    lastResponse.kind = "health" =>
        \A p \in Providers :
            lastResponse.body.providers[p].configured <=>
                p \in config.serverKeys

\* C28 as claimed: /health reports status ok whenever no provider has
\* fallback credentials or a provider with fallback credentials is
\* healthy, and degraded only when some provider has fallback credentials
\* and none of those is healthy.
C28_Original ==
    lastResponse.kind = "health" =>
        LET report == lastResponse.body
            someHealthy ==
                \E p \in config.serverKeys : report.providers[p].healthy
        IN  /\ (config.serverKeys = {} \/ someHealthy) =>
                  report.status = "ok"
            /\ report.status = "degraded" =>
                  (config.serverKeys # {} /\ ~someHealthy)

\* C31 as claimed: a step that changes a field of a stored session goes
\* through updateSession and so resets the session's expiration clock: the
\* session's expiresAt is then five minutes after the step.
C31_Original ==
    [][\A sid \in DOMAIN sessions :
          (/\ sid \in DOMAIN sessions'
           /\ sessions'[sid] = sessions[sid]
           /\ sessionHeap'[sessions[sid]] # sessionHeap[sessions[sid]]) =>
              sessionHeap'[sessions[sid]].expiresAt = now + UpdateTtlMs]_vars

ToolCallsSessionIds(resp) ==
    {resp.events[i].data.sessionId :
        i \in {j \in DOMAIN resp.events : resp.events[j].event = "tool_calls"}}

\* C33 as claimed: in the step in which a round, fresh or continuation,
\* emits a tool_calls event carrying session id s, a session with id s
\* whose expiration has not passed is present in the store.
C33_Original ==
    [][\A r \in StreamIds, resp \in NormalResponses :
          (StreamReturns(r, resp) \/ ContinueReturns(r, resp)) =>
              \A s \in ToolCallsSessionIds(lastResponse') :
                  SessionLive(sessions', sessionHeap', s, now)]_vars

\* C34 as claimed: the messages of the k-th continuation round of a
\* session, k >= 2, are the original request's messages followed, for
\* each round before it in order, by that round's assistant turn and a
\* User turn of tool results, the current two turns being the last pair.
\* The session's raw assistant text holds one text per round so far.
C34_Original ==
    [][\A sid \in SessionIds, tr \in ContinueInputs :
          (/\ ContinueAccepted(sid, tr)
           /\ Len(sessionHeap[sessions[sid]].rawAssistantText) >= 2) =>
              \E r \in DOMAIN rounds' \ DOMAIN rounds :
                  LET stored == sessionHeap[sessions[sid]]
                      k == Len(stored.rawAssistantText)
                      n == Len(buildNormalizedRequest.messages)
                      msgs == rounds'[r].request.messages
                  IN  /\ Len(msgs) = n + 2 * k
                      /\ \A i \in 1..n :
                            msgs[i] = buildNormalizedRequest.messages[i]
                      /\ \A j \in 1..k :
                            /\ msgs[n + 2 * j - 1].participant = "Claude"
                            /\ msgs[n + 2 * j - 1].content[1].ref =
                                  stored.rawAssistantText[j]
                            /\ msgs[n + 2 * j].participant = "User"
                            /\ msgs[n + 2 * j].content[1].type =
                                  "tool_result"]_vars

\* continuation round r overlapped another round of its session: it built
\* its request from content blocks that a round returning since has
\* replaced
Overlapped(r) ==
    LET stored == sessionHeap[rounds[r].session]
        n == Len(stored.request.messages)
    IN  /\ rounds[r].kind = "continue"
        /\ rounds[r].request.messages[n + 1].content # stored.contentBlocks

\* C35: when continuation rounds of one session overlap and end with
\* tool_use while the session is stored, a round returning after another
\* leaves the session with the usage at creation plus the usage of every
\* round that has returned, and with the text at creation followed by the
\* text of each of them: it adds to what the other rounds wrote, not to
\* what it had read before its invocation.  (The session holds one text
\* per round, the creating round included, and every round reports
\* RoundUsage.)
C35_NoLostRoundUpdate ==
    [][\A r \in StreamIds, resp \in NormalResponses :
          (/\ ContinueReturns(r, resp)
           /\ resp.stopReason = "tool_use"
           /\ Len(resp.toolCalls) > 0
           /\ Stored(rounds[r].sessionId)
           /\ Overlapped(r)) =>
              LET sid == rounds[r].sessionId
                  before == sessionHeap[sessions[sid]]
                  after == sessionHeap'[sessions'[sid]]
                  texts == Len(after.rawAssistantText)
              IN  /\ after.usage.inputTokens =
                        before.usage.inputTokens + resp.usage.inputTokens
                  /\ after.usage.outputTokens =
                        before.usage.outputTokens + resp.usage.outputTokens
                  /\ after.rawAssistantText =
                        before.rawAssistantText \o resp.rawAssistantText
                  /\ after.rawAssistantText[1] = "f"
                  /\ texts >= 3
                  /\ after.usage.inputTokens =
                        texts * RoundUsage.inputTokens
                  /\ after.usage.outputTokens =
                        texts * RoundUsage.outputTokens]_vars

\* C35 witness: the second of two overlapping continuation rounds ended
\* with tool_use; both had submitted results for the calls of the fresh
\* round, and the session holds three rounds of usage and three texts
C35_Witness ==
    /\ lastResponse.kind = "continue"
    /\ ToolRound(lastResponse)
    /\ DOMAIN rounds = {}
    /\ Stored(lastResponse.sessionId)
    /\ LET session == sessionHeap[sessions[lastResponse.sessionId]]
       IN  /\ Len(session.executedToolResults) = 4
           /\ \A i \in 1..4 :
                 session.executedToolResults[i].toolUseId \in {"t0", "t9"}
           /\ session.rawAssistantText = <<"f", "a", "a">>
           /\ session.usage.inputTokens = 3 * RoundUsage.inputTokens
           /\ session.usage.outputTokens = 3 * RoundUsage.outputTokens

\* C36 as claimed: after a continuation round that ended with an error
\* event, its session, if still stored, has every field at the value it
\* had before the round.  The round is the first continuation of its
\* session, so these are the values createSession gave the fields.
C36_Original ==
    (/\ IsRound(lastResponse)
     /\ lastResponse.kind = "continue"
     /\ lastResponse.outcome = "error"
     /\ Stored(lastResponse.sessionId)) =>
        LET session == sessionHeap[sessions[lastResponse.sessionId]]
        IN  /\ session.executedToolResults = << >>
            /\ session.rawAssistantText = <<"a">>
            /\ session.toolCalls = <<"t1", "t2">>
            /\ session.contentBlocks = ContentOf(<<"a">>, <<"t1", "t2">>)
            /\ session.usage = RoundUsage
            /\ session.expiresAt = session.createdAt + DefaultTtlMs

\* the session store: the Map, the stored objects and the id generator
Store == <<sessions, sessionHeap, sessionSeq>>

\* C37: a fresh /v1/stream round that ends aborted or with an error event
\* (raised by the collaborator or before it is invoked), and a
\* /v1/context/stream round whatever its outcome, creates, modifies and
\* deletes no session, in the request step and in the step that ends it.
C37_FailedAndContextRoundsKeepStore ==
    /\ [][\A r \in StreamIds :
            (/\ r \in DOMAIN rounds
             /\ \/ \E resp \in AbortedResponses : StreamReturns(r, resp)
                \/ \E resp \in NormalResponses \cup AbortedResponses :
                      ContextReturns(r, resp)
                \/ /\ rounds[r].kind \in {"stream", "context"}
                   /\ \E err \in ThrownErrors : InvocationThrows(r, err)) =>
                /\ Store' = Store
                /\ IsRound(lastResponse')
                /\ lastResponse'.streamId = r
                /\ ToolCallsSessionIds(lastResponse') = {}]_vars
    /\ [][\A valid \in BOOLEAN, cred \in Credentials :
            (\/ \E continueFrom \in BOOLEAN :
                  StreamRequest(valid, cred[1], cred[2], continueFrom)
             \/ ContextRequest(valid, cred[1], cred[2])) =>
                Store' = Store]_vars

\* C37 witness: a fresh round ended aborted after an abort request, and
\* the session an earlier round created is stored as it was created
C37_Witness ==
    /\ IsRound(lastResponse)
    /\ lastResponse.kind = "stream"
    /\ lastResponse.outcome = "aborted"
    /\ lastResponse.signalAborted
    /\ sessionSeq = 1
    /\ DOMAIN sessions = {1}
    /\ sessionHeap[sessions[1]].executedToolResults = << >>
    /\ sessionHeap[sessions[1]].expiresAt = DefaultTtlMs

\* every registered stream other than id is registered after the step
\* under the same handle, and its round is in flight as it was, the handle
\* unsignalled
OtherStreamsKept(id) ==
    \A other \in DOMAIN activeStreams \ {id} :
        /\ other \in DOMAIN activeStreams'
        /\ activeStreams'[other] = activeStreams[other]
        /\ other \in DOMAIN rounds'
        /\ rounds'[other] = rounds[other]
        /\ ~rounds'[other].signalAborted

\* the step in which the handler of round r finishes and cleans up
RoundEnds(r) ==
    /\ r \in DOMAIN rounds
    /\ r \notin DOMAIN rounds'

=============================================================================
